---------------------------- MODULE Spec2Model ----------------------------
(***************************************************************************)
(* Model of the nested-span data model and BIO codec of the CLASSIG        *)
(* pipeline (src/src/annotations.py, src/src/C6C/src/document.py).         *)
(*                                                                         *)
(* Objects live in `heap`, a sequence of span records; a span's identity   *)
(* is its index in the heap.  An element of a span is an integer: k > 0 is *)
(* the k-th token of the sentence, -s < 0 is the span with identity s.     *)
(* Python's None is the integer None for index-valued fields and 0 for     *)
(* object references; an instance attribute that was never assigned is     *)
(* Unset (reading it raises AttributeError).                               *)
(***************************************************************************)
EXTENDS Integers, Sequences, FiniteSets, TLC

VARIABLES
    tokens,      \* sentence.tokens: sequence of [ID, XPOS]
    heap,        \* every Span / MovElem / Antecedent object created so far
    last,        \* the last method call on a span and what it returned
    codec,       \* which class's span_from/to_BIO_annotation is running
    pc,          \* position of the codec run
    tok,         \* index of the token the decoder loop is at
    anno,        \* the annotation column on the tokens (tag per token)
    antecCol,    \* the Antec column read by MovElem.span_from_BIO_annotation
    span_stack,  \* the decoder's stack of open spans
    spans,       \* the decoder's output list / sentence.<spanname>
    antecedents, \* sentence.antecedents
    origin,      \* what the codec run started from: a forest or a column
    exc,         \* the exception that ended the codec run, or "none"
    cols,        \* history: every column the run has read or written
    strs,        \* history: str() of every forest the run has held
    dicts,       \* the dictionaries a fold of add_dict goes over
    acc,         \* the base dictionary the fold accumulates into
    prevAcc,     \* the base dictionary before the last add_dict call
    folded,      \* indices of the dictionaries added so far, in call order
    evalAnno,    \* the annotation name the evaluation runs with
    per_file,    \* eval_dict["per_file"]: the result dictionary of each file
    overall,     \* eval_dict["overall"] as overall_results last left it
    nmerged,     \* how many files that call of overall_results merged
    aGold,       \* goldsent.antecedents that evaluate_antecedents compares
    aSys,        \* evalsent.antecedents that evaluate_antecedents compares
    g_antecs,    \* the gold antecedents not matched so far
    e_antecs,    \* the system antecedents not matched so far
    antec_dict,  \* eval_dict of evaluate_antecedents
    matches,     \* history: the matches the passes have made
    apc,         \* position of evaluate_antecedents
    ivGold,      \* the gold interval given to overlap_type
    ivSys,       \* the system interval given to overlap_type
    ot,          \* what overlap_type returned for the pair, in both orders
    order,       \* sentence.tokens: the token objects in sentence order
    distance,    \* the antecedent's attribute distance, Unset while absent
    goldMovElems, \* goldsent.MovElems
    evalMovElems, \* evalsent.MovElems
    labels,      \* the labels evaluate_MovElems is called with
    all_goldspans,      \* evaluate_MovElems: every gold span tuple
    movElem_goldspans,  \* the gold tuples given to the main comparison
    evalspans,   \* the system tuples given to the main comparison
    gold_relcs,  \* the gold tuples given to the relative-clause comparison
    eval_relcs,  \* the system tuples given to the relative-clause comparison
    LABELS,      \* the module-level table LABELS of evaluation.py
    kwargs,      \* the key-word arguments of the last evaluate_file call
    objects,     \* MovElem and Antecedent objects built by their constructors
    store,       \* the Python list objects that head-token attributes refer to
    called       \* the last constructor or head-token call and its arguments

spanVars  == <<heap, last>>
codecVars == <<codec, pc, tok, anno, antecCol, span_stack, spans, antecedents,
               origin, exc, cols, strs>>
dictVars  == <<dicts, acc, prevAcc, folded>>
evalVars  == <<evalAnno, per_file, overall, nmerged>>
antecVars == <<aGold, aSys, g_antecs, e_antecs, antec_dict, matches, apc>>
overlapVars == <<ivGold, ivSys, ot>>
distVars  == <<order, distance>>
movVars   == <<goldMovElems, evalMovElems, labels, all_goldspans,
               movElem_goldspans, evalspans, gold_relcs, eval_relcs>>
labelVars == <<LABELS, kwargs>>
headVars  == <<objects, store, called>>
otherVars == <<dictVars, evalVars, antecVars, overlapVars, distVars, movVars,
               labelVars, headVars>>
vars      == <<tokens, heap, last, codec, pc, tok, anno, antecCol,
               span_stack, spans, antecedents, origin, exc, cols, strs,
               otherVars>>

\* The variables of the evaluation functions while none of them runs.
IdleDict  == dicts = <<>> /\ acc = <<>> /\ prevAcc = <<>> /\ folded = <<>>
IdleEval  == evalAnno = "" /\ per_file = <<>> /\ overall = <<>> /\ nmerged = 0
IdleAntec ==
    /\ aGold = <<>> /\ aSys = <<>> /\ g_antecs = <<>> /\ e_antecs = <<>>
    /\ antec_dict = <<>> /\ matches = <<>> /\ apc = ""
IdleOverlap == ivGold = <<>> /\ ivSys = <<>> /\ ot = <<>>
IdleDist  == order = <<>> /\ distance = <<>>
IdleMov   ==
    /\ goldMovElems = <<>> /\ evalMovElems = <<>> /\ labels = <<>>
    /\ all_goldspans = <<>> /\ movElem_goldspans = <<>> /\ evalspans = <<>>
    /\ gold_relcs = <<>> /\ eval_relcs = <<>>
IdleLabel == LABELS = <<>> /\ kwargs = <<>>
IdleHead  == objects = <<>> /\ store = <<>> /\ called = <<>>
IdleOther ==
    /\ IdleDict /\ IdleEval /\ IdleAntec /\ IdleOverlap /\ IdleDist /\ IdleMov
    /\ IdleLabel /\ IdleHead

\* What an action on one group of these variables leaves alone.
besideDict    == <<evalVars, antecVars, overlapVars, distVars, movVars,
                  labelVars, headVars>>
besideEval    == <<dictVars, antecVars, overlapVars, distVars, movVars,
                  labelVars, headVars>>
besideAntec   == <<dictVars, evalVars, overlapVars, distVars, movVars,
                  labelVars, headVars>>
besideOverlap == <<dictVars, evalVars, antecVars, distVars, movVars,
                  labelVars, headVars>>
besideDist    == <<dictVars, evalVars, antecVars, overlapVars, movVars,
                  labelVars, headVars>>
IdleBesideDict    == IdleEval /\ IdleAntec /\ IdleOverlap /\ IdleDist /\ IdleMov
                         /\ IdleLabel /\ IdleHead
IdleBesideEval    == IdleDict /\ IdleAntec /\ IdleOverlap /\ IdleDist /\ IdleMov
                         /\ IdleLabel /\ IdleHead
IdleBesideAntec   == IdleDict /\ IdleEval /\ IdleOverlap /\ IdleDist /\ IdleMov
                         /\ IdleLabel /\ IdleHead
IdleBesideOverlap == IdleDict /\ IdleEval /\ IdleAntec /\ IdleDist /\ IdleMov
                         /\ IdleLabel /\ IdleHead
IdleBesideDist    == IdleDict /\ IdleEval /\ IdleAntec /\ IdleOverlap /\ IdleMov
                         /\ IdleLabel /\ IdleHead
besideMov     == <<dictVars, evalVars, antecVars, overlapVars, distVars,
                  labelVars, headVars>>
IdleBesideMov ==
    /\ IdleDict /\ IdleEval /\ IdleAntec /\ IdleOverlap /\ IdleDist /\ IdleLabel
    /\ IdleHead
besideFile    == <<dictVars, evalVars, antecVars, overlapVars, distVars,
                  headVars>>
IdleBesideFile ==
    IdleDict /\ IdleEval /\ IdleAntec /\ IdleOverlap /\ IdleDist /\ IdleHead
besideHead    == <<dictVars, evalVars, antecVars, overlapVars, distVars,
                  movVars, labelVars>>
IdleBesideHead ==
    /\ IdleDict /\ IdleEval /\ IdleAntec /\ IdleOverlap /\ IdleDist /\ IdleMov
    /\ IdleLabel

---------------------------------------------------------------------------
(* Bounds *)

NTok      == 2     \* tokens per sentence
MaxSpans  == 2     \* objects on the heap of the mutator specification
MaxElems  == 2     \* length of an element list in the mutator specification

(* Encoding of Python values *)

None  == -1        \* the value None in an integer-valued field
Unset == -2        \* an attribute that __init__ did not create

---------------------------------------------------------------------------
(* str(int) and int(str) on token IDs and correlation ids *)

Digits == <<"0", "1", "2", "3", "4", "5", "6", "7", "8", "9">>

IsNumeric(s) == \E n \in 1..Len(Digits) : Digits[n] = s

int(s) == (CHOOSE n \in 1..Len(Digits) : Digits[n] = s) - 1

str(n) == Digits[n + 1]

---------------------------------------------------------------------------
(* Sequence helpers *)

Last(s) == s[Len(s)]

Front(s) == SubSeq(s, 1, Len(s) - 1)

InsertAt(s, i, e) == SubSeq(s, 1, i) \o <<e>> \o SubSeq(s, i + 1, Len(s))

RemoveAt(s, i) == SubSeq(s, 1, i - 1) \o SubSeq(s, i + 1, Len(s))

Contains(s, e) == \E i \in 1..Len(s) : s[i] = e

IndexOf(s, e) == CHOOSE i \in 1..Len(s) : s[i] = e /\ \A j \in 1..(i - 1) : s[j] # e

---------------------------------------------------------------------------
(* Span objects *)

IsTok(e)  == e > 0
IsSpan(e) == e < 0
SpanOf(e) == 0 - e
Ref(s)    == 0 - s

\* The object state Span.__init__ leaves before any element is appended.
NewObj(cls, label) ==
    [cls |-> cls, lab |-> label, elems |-> <<>>, parent |-> 0,
     start |-> Unset, end |-> Unset,
     pos |-> "None", vpos |-> "None", ID |-> None, heads |-> <<>>, link |-> 0]

RECURSIVE get_tokens(_, _)
get_tokens(h, s) ==
    LET Flat[i \in 0..Len(h[s].elems)] ==
            IF i = 0 THEN <<>>
            ELSE LET e == h[s].elems[i]
                 IN  IF IsTok(e) THEN Append(Flat[i - 1], e)
                     ELSE Flat[i - 1] \o get_tokens(h, SpanOf(e))
    IN  Flat[Len(h[s].elems)]

\* Span.__len__
len(h, s) == Len(get_tokens(h, s))

\* The STTS tags that start with "$".
PunctTags == {"$.", "$,", "$("}

\* t.XPOS.startswith("$")
IsPunct(t) == tokens[t].XPOS \in PunctTags

set_parent(h, s, p) == [h EXCEPT ![s].parent = p]

\* tokens[0].__dict__.get("ID"); if self.start: self.start = int(self.start)-1
IndexOfToken(t) == int(tokens[t].ID) - 1

RECURSIVE update_start_index(_, _)
update_start_index(h, s) ==
    IF h[s].elems # <<>>
    THEN LET toks == get_tokens(h, s)
             h1   == [h EXCEPT ![s].start =
                         IF toks # <<>> THEN IndexOfToken(toks[1]) ELSE None]
             Rec[i \in 0..Len(h[s].elems)] ==
                 IF i = 0 THEN h1
                 ELSE LET e == h[s].elems[i]
                      IN  IF IsTok(e) THEN Rec[i - 1]
                          ELSE update_start_index(Rec[i - 1], SpanOf(e))
         IN  Rec[Len(h[s].elems)]
    ELSE [h EXCEPT ![s].start = None]

RECURSIVE update_end_index(_, _)
update_end_index(h, s) ==
    IF h[s].elems # <<>>
    THEN LET toks == get_tokens(h, s)
             h1   == [h EXCEPT ![s].end =
                         IF toks # <<>> THEN IndexOfToken(Last(toks)) ELSE None]
             Rec[i \in 0..Len(h[s].elems)] ==
                 IF i = 0 THEN h1
                 ELSE LET e == h[s].elems[i]
                      IN  IF IsTok(e) THEN Rec[i - 1]
                          ELSE update_end_index(Rec[i - 1], SpanOf(e))
         IN  Rec[Len(h[s].elems)]
    ELSE [h EXCEPT ![s].end = None]

update_indices(h, s) == update_end_index(update_start_index(h, s), s)

\* Inform the elements that are spans about their parent.
SetParents(h, elements, p) ==
    LET Rec[i \in 0..Len(elements)] ==
            IF i = 0 THEN h
            ELSE IF IsSpan(elements[i])
                 THEN set_parent(Rec[i - 1], SpanOf(elements[i]), p)
                 ELSE Rec[i - 1]
    IN  Rec[Len(elements)]

set_elements(h, s, elements) ==
    update_indices(SetParents([h EXCEPT ![s].elems = elements], elements, s), s)

append_element(h, s, element) ==
    IF h[s].elems = <<>>
    THEN update_start_index(update_start_index(set_elements(h, s, <<element>>), s), s)
    ELSE LET h1 == IF IsSpan(element) THEN set_parent(h, SpanOf(element), s) ELSE h
         IN  update_end_index([h1 EXCEPT ![s].elems = Append(@, element)], s)

\* A variant that appends when the index is beyond the end.
insert_element_appending(h, s, index, element) ==
    IF index < Len(h[s].elems)
    THEN LET h1 == IF IsSpan(element) THEN set_parent(h, SpanOf(element), s) ELSE h
         IN  update_indices([h1 EXCEPT ![s].elems = InsertAt(@, index, element)], s)
    ELSE update_indices(append_element(h, s, element), s)

\* A variant that makes s the element's parent before it rejects the index.
insert_element_adopting(h, s, index, element) ==
    IF index < Len(h[s].elems)
    THEN LET h1 == IF IsSpan(element) THEN set_parent(h, SpanOf(element), s) ELSE h
         IN  update_indices([h1 EXCEPT ![s].elems = InsertAt(@, index, element)], s)
    ELSE IF index = Len(h[s].elems)
    THEN update_indices(append_element(h, s, element), s)
    ELSE IF IsSpan(element) THEN set_parent(h, SpanOf(element), s) ELSE h

\* The heap after insert_element(index, element); index is zero-based.
insert_element(h, s, index, element) ==
    IF index < Len(h[s].elems)
    THEN LET h1 == IF IsSpan(element) THEN set_parent(h, SpanOf(element), s) ELSE h
         IN  update_indices([h1 EXCEPT ![s].elems = InsertAt(@, index, element)], s)
    ELSE IF index = Len(h[s].elems)
    THEN update_indices(append_element(h, s, element), s)
    ELSE h

\* What insert_element returns to its caller: it has no return statement on
\* the two inserting branches and "return None" on the rejecting one.
insert_element_ret(h, s, index, element) ==
    CASE index < Len(h[s].elems) -> "None"
      [] index = Len(h[s].elems) -> "None"
      [] OTHER                   -> "None"

remove_element(h, s, element) ==
    IF Contains(h[s].elems, element)
    THEN update_indices(
             [h EXCEPT ![s].elems = RemoveAt(@, IndexOf(@, element))], s)
    ELSE h

remove_element_ret(h, s, element) ==
    IF Contains(h[s].elems, element) THEN "True" ELSE "False"

\* get_start_index: the heap after the call (the lazy refresh of the cache).
get_start_index_heap(h, s, ignore_punct) ==
    IF ~ignore_punct /\ h[s].start = None THEN update_start_index(h, s) ELSE h

get_end_index_heap(h, s, ignore_punct) ==
    IF ~ignore_punct /\ h[s].end = None THEN update_end_index(h, s) ELSE h

NoPunct(toks) == SelectSeq(toks, LAMBDA t : ~IsPunct(t))

\* A variant that falls back to the first token when every token is
\* punctuation.
get_start_index_fallback(h, s, ignore_punct) ==
    IF ~ignore_punct
    THEN IF h[s].start = Unset THEN Unset
         ELSE get_start_index_heap(h, s, ignore_punct)[s].start
    ELSE LET toks == get_tokens(h, s)
         IN  IF toks = <<>> THEN None
             ELSE IF NoPunct(toks) # <<>> THEN IndexOfToken(NoPunct(toks)[1])
             ELSE IndexOfToken(toks[1])

\* get_start_index: the value returned; Unset stands for the AttributeError
\* raised by reading self.start before any assignment.
get_start_index(h, s, ignore_punct) ==
    IF ~ignore_punct
    THEN IF h[s].start = Unset THEN Unset
         ELSE get_start_index_heap(h, s, ignore_punct)[s].start
    ELSE IF h[s].elems # <<>>
    THEN LET toks == get_tokens(h, s)
         IN  IF toks # <<>>
             THEN IF NoPunct(toks) # <<>>
                  THEN IndexOfToken(NoPunct(toks)[1])
                  ELSE None
             ELSE None
    ELSE None

get_end_index(h, s, ignore_punct) ==
    IF ~ignore_punct
    THEN IF h[s].end = Unset THEN Unset
         ELSE get_end_index_heap(h, s, ignore_punct)[s].end
    ELSE IF h[s].elems # <<>>
    THEN LET toks == get_tokens(h, s)
         IN  IF toks # <<>>
             THEN IF NoPunct(toks) # <<>>
                  THEN IndexOfToken(Last(NoPunct(toks)))
                  ELSE None
             ELSE None
    ELSE None

---------------------------------------------------------------------------
(* BIO tags.  A token's annotation is the list its tag string splits into  *)
(* at "|"; each level tag is the list it splits into at "-":               *)
(* "I-RELC-extrap-2|B-PP-insitu" is <<<<"I","RELC","extrap","2">>,         *)
(* <<"B","PP","insitu">>>>.                                                *)

O          == << <<"O">> >>
Underscore == << <<"_">> >>

\* annotation.startswith("B-") / annotation.startswith("I-")
IsB(annotation) == Len(annotation) >= 2 /\ annotation[1] = "B"
IsI(annotation) == Len(annotation) >= 2 /\ annotation[1] = "I"

\* "Head" in annotation
HasHead(annotation) == Contains(annotation, "Head")

\* The state of one decoder call.
Dec(h, stack, out, e) == [heap |-> h, stack |-> stack, spans |-> out, exc |-> e]

Raise(d, e) == [d EXCEPT !.exc = e]

\* while len(span_stack) > n: span_stack.pop()
CutStack(d, n) ==
    IF Len(d.stack) > n THEN [d EXCEPT !.stack = SubSeq(@, 1, n)] ELSE d

\* p.set_parent(span_stack[-1]); span_stack[-1].append_element(p);
\* span_stack.append(p)   (the first two only if the stack is not empty)
Push(d, p) ==
    LET h1 == IF d.stack # <<>>
              THEN append_element(set_parent(d.heap, p, Last(d.stack)),
                                  Last(d.stack), Ref(p))
              ELSE d.heap
    IN  [d EXCEPT !.heap = h1, !.stack = Append(@, p)]

(* Span.span_from_BIO_annotation *)

\* On level one with spans on the stack: spans.append(span_stack.pop())
Span_flush(d, i) ==
    IF i = 1 /\ d.stack # <<>>
    THEN [d EXCEPT !.spans = Append(@, Last(d.stack)), !.stack = Front(@)]
    ELSE CutStack(d, i - 1)

\* elif annotation.startswith("I-"): span_stack[i].append_element(tok)
Span_continue(d, i, n, t) ==
    IF i <= Len(d.stack)
    THEN [d EXCEPT !.heap = append_element(@, d.stack[i], t)]
    ELSE Raise(d, "IndexError")

Span_level(d, i, annotation, n, t) ==
    IF IsB(annotation)
    THEN LET d1 == Span_flush(d, i)
             p  == Len(d1.heap) + 1
             h0 == Append(d1.heap, NewObj("Span", annotation[2]))
             h1 == IF i < n THEN h0 ELSE append_element(h0, p, t)
         IN  Push([d1 EXCEPT !.heap = h1], p)
    ELSE IF IsI(annotation) THEN Span_continue(d, i, n, t)
    ELSE d

Span_token(d, t, a) ==
    IF a \in {O, Underscore}
    THEN IF d.stack # <<>>
         THEN [d EXCEPT !.spans = Append(@, d.stack[1]), !.stack = <<>>]
         ELSE d
    ELSE LET Rec[i \in 0..Len(a)] ==
                 IF i = 0 THEN CutStack(d, Len(a))
                 ELSE LET prev == Rec[i - 1]
                      IN  IF prev.exc # "none" THEN prev
                          ELSE Span_level(prev, i, a[i], Len(a), t)
         IN  Rec[Len(a)]

\* for span in spans: span.update_start_index(); span.update_end_index()
UpdateAll(h, out) ==
    LET Rec[i \in 0..Len(out)] ==
            IF i = 0 THEN h ELSE update_indices(Rec[i - 1], out[i])
    IN  Rec[Len(out)]

Span_finish(d) ==
    LET out == IF d.stack # <<>> THEN Append(d.spans, d.stack[1]) ELSE d.spans
    IN  [d EXCEPT !.spans = out, !.stack = <<>>, !.heap = UpdateAll(@, out)]

(* MovElem.span_from_BIO_annotation *)

\* [a for a in sentence.antecedents if a.get_MovElemID() == ID], first or None
FindAntec(h, antecs, ID) ==
    LET hits == {k \in 1..Len(antecs) : h[antecs[k]].ID = ID}
    IN  IF hits = {} THEN 0
        ELSE antecs[CHOOSE k \in hits : \A m \in hits : k <= m]

\* On level one with spans on the stack: spans.append(span_stack[0]);
\* span_stack = []
MovElem_flush(d, i) ==
    IF i = 1 /\ d.stack # <<>>
    THEN [d EXCEPT !.spans = Append(@, d.stack[1]), !.stack = <<>>]
    ELSE CutStack(d, i - 1)

\* MovElem(label, elements, position, ID, antec, headToks, vposition) and
\* antec.set_MovElem(p); the token is an element unless the span dominates.
MovElem_new(d, i, annotation, n, t, antecs) ==
    LET label == annotation[2]
        advc  == label = "ADVC"
        last_ == Last(annotation)
        ID    == IF ~advc /\ IsNumeric(last_) THEN int(last_) ELSE None
        antec == IF advc \/ ID = None THEN 0 ELSE FindAntec(d.heap, antecs, ID)
        p     == Len(d.heap) + 1
        obj   == [NewObj("MovElem", label) EXCEPT
                    !.pos   = IF advc THEN "None" ELSE annotation[3],
                    !.vpos  = IF advc THEN annotation[3] ELSE "None",
                    !.ID    = ID,
                    !.heads = IF advc /\ HasHead(annotation) THEN <<t>> ELSE <<>>,
                    !.link  = antec]
        h0    == Append(d.heap, obj)
        h1    == IF i < n THEN h0 ELSE append_element(h0, p, t)
        h2    == IF antec # 0 THEN [h1 EXCEPT ![antec].link = p] ELSE h1
    IN  Push([d EXCEPT !.heap = h2], p)

\* elif annotation.startswith("I-"): the token goes to the span of the
\* deepest level only; a head token is added to the level's head tokens.
MovElem_continue(d, i, annotation, n, t) ==
    IF (i = n \/ HasHead(annotation)) /\ i > Len(d.stack)
    THEN Raise(d, "IndexError")
    ELSE LET s  == d.stack[i]
             h1 == IF i = n THEN append_element(d.heap, s, t) ELSE d.heap
             h2 == IF HasHead(annotation)
                   THEN [h1 EXCEPT ![s].heads = Append(@, t)]
                   ELSE h1
         IN  [d EXCEPT !.heap = h2]

MovElem_level(d, i, annotation, n, t, antecs) ==
    IF IsB(annotation)
    THEN IF Len(annotation) < 3
         THEN Raise(MovElem_flush(d, i), "IndexError")
         ELSE MovElem_new(MovElem_flush(d, i), i, annotation, n, t, antecs)
    ELSE IF IsI(annotation) THEN MovElem_continue(d, i, annotation, n, t)
    ELSE d

MovElem_token(d, t, a, antecs) ==
    IF a = Underscore
    THEN IF d.stack # <<>>
         THEN [d EXCEPT !.spans = Append(@, d.stack[1]), !.stack = <<>>]
         ELSE d
    ELSE LET Rec[i \in 0..Len(a)] ==
                 IF i = 0 THEN CutStack(d, Len(a))
                 ELSE LET prev == Rec[i - 1]
                      IN  IF prev.exc # "none" THEN prev
                          ELSE MovElem_level(prev, i, a[i], Len(a), t, antecs)
         IN  Rec[Len(a)]

MovElem_finish(d) == Span_finish(d)

(* Antecedent.span_from_BIO_annotation *)

\* while len(span_stack) > n: spans.append(span_stack.pop())
RECURSIVE PopStack(_, _)
PopStack(d, n) ==
    IF Len(d.stack) > n
    THEN PopStack([d EXCEPT !.spans = Append(@, Last(d.stack)),
                            !.stack = Front(@)], n)
    ELSE d

\* Antecedent(MovElemID=..., headTokens=..., elements=[tok])
Antecedent_new(d, annotation, t) ==
    LET head  == HasHead(annotation)
        hasID == IF head THEN Len(annotation) # 3 ELSE Len(annotation) # 2
        p     == Len(d.heap) + 1
        obj   == [NewObj("Antecedent", "Antec") EXCEPT
                    !.ID    = IF hasID THEN int(annotation[3]) ELSE None,
                    !.heads = IF head THEN <<t>> ELSE <<>>]
    IN  IF hasID /\ Len(annotation) < 3 THEN Raise(d, "IndexError")
        ELSE IF hasID /\ ~IsNumeric(annotation[3]) THEN Raise(d, "ValueError")
        ELSE Push([d EXCEPT !.heap = append_element(Append(@, obj), p, t)], p)

Antecedent_continue(d, i, annotation, t) ==
    IF i > Len(d.stack) THEN Raise(d, "IndexError")
    ELSE LET s  == d.stack[i]
             h1 == append_element(d.heap, s, t)
         IN  [d EXCEPT !.heap = IF HasHead(annotation)
                                THEN [h1 EXCEPT ![s].heads = Append(@, t)]
                                ELSE h1]

Antecedent_level(d, i, annotation, t) ==
    IF IsB(annotation) THEN Antecedent_new(PopStack(d, i - 1), annotation, t)
    ELSE IF IsI(annotation) THEN Antecedent_continue(d, i, annotation, t)
    ELSE d

Antecedent_token(d, t, a) ==
    IF a = Underscore THEN PopStack(d, 0)
    ELSE LET Rec[i \in 0..Len(a)] ==
                 IF i = 0 THEN PopStack(d, Len(a))
                 ELSE LET prev == Rec[i - 1]
                      IN  IF prev.exc # "none" THEN prev
                          ELSE Antecedent_level(prev, i, a[i], t)
         IN  Rec[Len(a)]

Antecedent_finish(d) ==
    LET d1 == PopStack(d, 0)
    IN  [d1 EXCEPT !.heap = UpdateAll(@, d1.spans)]

\* The whole of Antecedent.span_from_BIO_annotation on one column.
Antecedent_decode(h, column) ==
    LET Rec[k \in 0..Len(column)] ==
            IF k = 0 THEN Dec(h, <<>>, <<>>, "none")
            ELSE LET prev == Rec[k - 1]
                 IN  IF prev.exc # "none" THEN prev
                     ELSE Antecedent_token(prev, k, column[k])
        d == Rec[Len(column)]
    IN  IF d.exc # "none" THEN d ELSE Antecedent_finish(d)

---------------------------------------------------------------------------
(* span_to_BIO_annotation *)

\* The span tuple of get_bio_spans; ip is the ignore_punct of its indices.
Tuple(h, s, ip) ==
    [lab   |-> h[s].lab,
     start |-> get_start_index(h, s, ip),
     end   |-> get_end_index(h, s, ip),
     pos   |-> h[s].pos, vpos |-> h[s].vpos, ID |-> h[s].ID,
     heads |-> h[s].heads]

\* get_bio_spans(span): refresh the indices, emit the span's tuple, recurse
\* into the elements that are spans.
\* bio_spans.append((span.label, span.get_start_index(), ...))
Emit(h, s, ip) == [heap |-> h, bio |-> <<Tuple(h, s, ip)>>]

RECURSIVE get_bio_spans(_, _, _)
get_bio_spans(h, s, ip) ==
    LET es == h[s].elems
        Rec[i \in 0..Len(es)] ==
            IF i = 0
            THEN Emit(update_start_index(update_end_index(h, s), s), s, ip)
            ELSE LET prev == Rec[i - 1]
                 IN  IF IsSpan(es[i])
                     THEN LET r == get_bio_spans(prev.heap, SpanOf(es[i]), ip)
                          IN  [heap |-> r.heap, bio |-> prev.bio \o r.bio]
                     ELSE prev
    IN  Rec[Len(es)]

\* key=lambda l: (l[1], 0-l[2])
ByStartEnd(a, b) ==
    a.start < b.start \/ (a.start = b.start /\ a.end > b.end)

\* key=lambda l: (l[1], 0-l[2], l[3])
ByStartEndID(a, b) ==
    ByStartEnd(a, b) \/ (a.start = b.start /\ a.end = b.end /\ a.ID < b.ID)

\* sorted(seq, key=...): stable; byID adds the id as the third key.
SortBy(byID, seq) ==
    LET Less(a, b) == IF byID THEN ByStartEndID(a, b) ELSE ByStartEnd(a, b)
        Ins(sorted, x) ==
            InsertAt(sorted,
                     Cardinality({j \in 1..Len(sorted) : ~Less(x, sorted[j])}),
                     x)
        Rec[i \in 0..Len(seq)] ==
            IF i = 0 THEN <<>> ELSE Ins(Rec[i - 1], seq[i])
    IN  Rec[Len(seq)]

\* 0-None in the key, or None compared with an int, is a TypeError
KeyError(bio) ==
    \E k \in 1..Len(bio) : bio[k].start = None \/ bio[k].end = None

IDKeyError(bio) ==
    \/ KeyError(bio)
    \/ \E j, k \in 1..Len(bio) :
         /\ bio[j].start = bio[k].start /\ bio[j].end = bio[k].end
         /\ bio[j].ID = None /\ bio[k].ID # None

\* ["" for _ in sentence.tokens]
EmptyColumn(n) ==
    LET Rec[k \in 0..n] == IF k = 0 THEN <<>> ELSE Append(Rec[k - 1], <<>>)
    IN  Rec[n]

\* [int(t.ID)-1 for t in heads]
HeadIndices(heads) == {IndexOfToken(heads[k]) : k \in 1..Len(heads)}

\* truthiness of an id: neither None nor 0
Truthy(ID) == ID # None /\ ID # 0

OptStr(x) == IF x = "None" \/ x = "" THEN <<>> ELSE <<x>>

(* The tags one span tuple contributes at index i (i counts from 0) *)

Span_tag(tp, i) == <<IF i = tp.start THEN "B" ELSE "I", tp.lab>>

MovElem_tag(tp, i) ==
    IF i > tp.start
    THEN <<"I", tp.lab>>
         \o (IF tp.lab = "ADVC" /\ i \in HeadIndices(tp.heads)
             THEN <<"Head">> ELSE <<>>)
    ELSE IF tp.lab # "ADVC"
    THEN <<"B", tp.lab>> \o OptStr(tp.pos)
         \o (IF tp.lab \in {"RELC", "CMPP"} /\ Truthy(tp.ID)
             THEN <<str(tp.ID)>> ELSE <<>>)
    ELSE <<"B", tp.lab>> \o OptStr(tp.vpos)
         \o (IF i \in HeadIndices(tp.heads) THEN <<"Head">> ELSE <<>>)

Antecedent_tag(tp, i) ==
    (IF i = tp.start
     THEN <<"B", tp.lab>> \o (IF Truthy(tp.ID) THEN <<str(tp.ID)>> ELSE <<>>)
     ELSE <<"I", tp.lab>>)
    \o (IF i \in HeadIndices(tp.heads) THEN <<"Head">> ELSE <<>>)

\* Write the tags of the sorted tuples into the column, stacking with "|".
WriteTags(cls, column, bio) ==
    LET Tag(tp, i) == CASE cls = "Span"       -> Span_tag(tp, i)
                        [] cls = "MovElem"    -> MovElem_tag(tp, i)
                        [] cls = "Antecedent" -> Antecedent_tag(tp, i)
        One(col, tp) ==
            LET Rec[i \in (tp.start - 1)..tp.end] ==
                    IF i < tp.start THEN col
                    ELSE [Rec[i - 1] EXCEPT ![i + 1] = Append(@, Tag(tp, i))]
            IN  Rec[tp.end]
        All[k \in 0..Len(bio)] ==
            IF k = 0 THEN column ELSE One(All[k - 1], bio[k])
    IN  All[Len(bio)]

\* Tokens outside spans get the fill tag.
Fill(column, fill) ==
    LET Rec[k \in 0..Len(column)] ==
            IF k = 0 THEN <<>>
            ELSE Append(Rec[k - 1], IF column[k] = <<>> THEN fill ELSE column[k])
    IN  Rec[Len(column)]

Enc(h, column, e) == [heap |-> h, column |-> column, exc |-> e]

\* bio_spans.sort(key=lambda l: (l[1], 0-l[2])), then the tags of the
\* sorted tuples r.bio are written into the column.
SortAndWrite(cls, column, r) ==
    IF KeyError(r.bio) THEN Enc(r.heap, column, "TypeError")
    ELSE Enc(r.heap, WriteTags(cls, column, SortBy(FALSE, r.bio)), "none")

(* Span.span_to_BIO_annotation: each listed span's tuples are sorted and *)
(* written on their own.                                                  *)
Span_to_BIO(h, out) ==
    LET Rec[k \in 0..Len(out)] ==
            IF k = 0 THEN Enc(h, EmptyColumn(Len(tokens)), "none")
            ELSE LET prev == Rec[k - 1]
                 IN  IF prev.exc # "none" THEN prev
                     ELSE SortAndWrite("Span", prev.column,
                              get_bio_spans(prev.heap, out[k], FALSE))
    IN  [Rec[Len(out)] EXCEPT !.column = Fill(@, O)]

(* MovElem.span_to_BIO_annotation: the listed spans are first sorted by   *)
(* their cached indices; the tuples carry the indices without punctuation.*)
MovElem_keys(h, out) ==
    LET Rec[k \in 0..Len(out)] ==
            IF k = 0 THEN [heap |-> h, bio |-> <<>>, exc |-> "none"]
            ELSE LET prev == Rec[k - 1] IN
                 IF prev.exc # "none" THEN prev
            ELSE LET h0 == prev.heap
                     s  == out[k]
                     h1 == IF h0[s].start = Unset THEN h0
                           ELSE get_start_index_heap(h0, s, FALSE)
                     h2 == IF h1[s].end = Unset THEN h1
                           ELSE get_end_index_heap(h1, s, FALSE)
                     e  == IF h0[s].start = Unset \/ h1[s].end = Unset
                           THEN "AttributeError"
                           ELSE IF h2[s].end = None THEN "TypeError"
                           ELSE "none"
                 IN  [heap |-> h2, exc |-> e,
                      bio  |-> Append(prev.bio,
                                      [s |-> s, start |-> h2[s].start,
                                       end |-> h2[s].end])]
    IN  Rec[Len(out)]

\* The loop over the spans in the order of their keys.
MovElem_write(h, sorted) ==
    LET Rec[k \in 0..Len(sorted)] ==
            IF k = 0 THEN Enc(h, EmptyColumn(Len(tokens)), "none")
            ELSE LET prev == Rec[k - 1]
                 IN  IF prev.exc # "none" THEN prev
                     ELSE SortAndWrite("MovElem", prev.column,
                              get_bio_spans(prev.heap, sorted[k].s, TRUE))
    IN  [Rec[Len(sorted)] EXCEPT !.column = Fill(@, Underscore)]

MovElem_sorted(keys) ==
    IF keys.exc # "none" THEN Enc(keys.heap, <<>>, keys.exc)
    ELSE MovElem_write(keys.heap, SortBy(FALSE, keys.bio))

MovElem_to_BIO(h, out) == MovElem_sorted(MovElem_keys(h, out))

(* Antecedent.span_to_BIO_annotation: the tuples of all listed spans are  *)
(* collected, then sorted and written together.                           *)
\* for span in spans: bio_spans.extend(get_bio_spans(span))
Antecedent_tuples(h, out) ==
    LET Rec[k \in 0..Len(out)] ==
            IF k = 0 THEN [heap |-> h, bio |-> <<>>]
            ELSE LET prev == Rec[k - 1]
                     r    == get_bio_spans(prev.heap, out[k], FALSE)
                 IN  [heap |-> r.heap, bio |-> prev.bio \o r.bio]
    IN  Rec[Len(out)]

Antecedent_write(all) ==
    IF IDKeyError(all.bio) THEN Enc(all.heap, <<>>, "TypeError")
    ELSE Enc(all.heap,
             Fill(WriteTags("Antecedent", EmptyColumn(Len(tokens)),
                            SortBy(TRUE, all.bio)),
                  Underscore),
             "none")

Antecedent_to_BIO(h, out) == Antecedent_write(Antecedent_tuples(h, out))

(* Span.__str__: "[Label elements]", as the list of its words *)
RECURSIVE Span_str(_, _)
Span_str(h, s) ==
    LET Rec[i \in 0..Len(h[s].elems)] ==
            IF i = 0 THEN <<"[", h[s].lab>>
            ELSE LET e == h[s].elems[i]
                 IN  IF IsTok(e) THEN Append(Rec[i - 1], tokens[e].ID)
                     ELSE Rec[i - 1] \o Span_str(h, SpanOf(e))
    IN  Append(Rec[Len(h[s].elems)], "]")

\* [str(span) for span in spans]
Forest_str(h, out) ==
    LET Rec[k \in 0..Len(out)] ==
            IF k = 0 THEN <<>> ELSE Append(Rec[k - 1], Span_str(h, out[k]))
    IN  Rec[Len(out)]

---------------------------------------------------------------------------
(* The sentences the specifications start from *)

\* add_token gives the k-th token the ID str(k) (document.py, add_token).
SentenceWith(xpos) == [k \in 1..NTok |-> [ID |-> str(k), XPOS |-> xpos[k]]]

\* A sentence of words, and one whose odd tokens are punctuation.
WordSentence  == SentenceWith([k \in 1..NTok |-> "NN"])
PunctSentence == SentenceWith([k \in 1..NTok |-> IF k % 2 = 1 THEN "$," ELSE "NN"])

Sentences == {WordSentence, PunctSentence}

---------------------------------------------------------------------------
(* Specification Spec: constructor, mutators and index getters of Span,    *)
(* called in any order on any spans.                                       *)

NoCall == [op |-> "none", self |-> 0, index |-> 0, n |-> 0, ret |-> "None"]

Call(op, s, index, n, ret) ==
    [op |-> op, self |-> s, index |-> index, n |-> n, ret |-> ret]

Ids == 1..Len(heap)

\* The elements a caller can pass: a token of the sentence or a span.
Elements == (1..NTok) \cup {Ref(s) : s \in Ids}

RECURSIVE Dominates(_, _, _)
Dominates(h, a, b) ==
    \E i \in 1..Len(h[a].elems) :
        LET e == h[a].elems[i]
        IN  IsSpan(e) /\ (SpanOf(e) = b \/ Dominates(h, SpanOf(e), b))

\* Adding element to s keeps the structure free of cycles (a cycle makes
\* get_tokens recurse without end).
Acyclic(s, element) ==
    IsSpan(element) => SpanOf(element) # s /\ ~Dominates(heap, SpanOf(element), s)

IdleCodec ==
    /\ codec = "none" /\ pc = "idle" /\ tok = 0
    /\ anno = <<>> /\ antecCol = <<>>
    /\ span_stack = <<>> /\ spans = <<>> /\ antecedents = <<>>
    /\ origin = "none" /\ exc = "none" /\ cols = <<>> /\ strs = <<>>

InitSpan ==
    /\ tokens = PunctSentence
    /\ heap = <<>>
    /\ last = NoCall
    /\ IdleCodec /\ IdleOther

\* Span(label, elements): __init__ appends the elements one by one.
NewSpan(label, elements) ==
    /\ Len(heap) < MaxSpans
    /\ LET s  == Len(heap) + 1
           h0 == Append(heap, NewObj("Span", label))
           Rec[i \in 0..Len(elements)] ==
               IF i = 0 THEN h0 ELSE append_element(Rec[i - 1], s, elements[i])
       IN  /\ heap' = Rec[Len(elements)]
           /\ last' = Call("__init__", s, 0, 0, "None")
    /\ UNCHANGED <<otherVars, tokens, codecVars>>

AppendElement(s, element) ==
    /\ Len(heap[s].elems) < MaxElems
    /\ Acyclic(s, element)
    /\ heap' = append_element(heap, s, element)
    /\ last' = Call("append_element", s, Len(heap[s].elems), Len(heap[s].elems), "None")
    /\ UNCHANGED <<otherVars, tokens, codecVars>>

InsertElement(s, index, element) ==
    /\ Len(heap[s].elems) < MaxElems
    /\ Acyclic(s, element)
    /\ heap' = insert_element(heap, s, index, element)
    /\ last' = Call("insert_element", s, index, Len(heap[s].elems),
                    insert_element_ret(heap, s, index, element))
    /\ UNCHANGED <<otherVars, tokens, codecVars>>

RemoveElement(s, element) ==
    /\ heap' = remove_element(heap, s, element)
    /\ last' = Call("remove_element", s, 0, Len(heap[s].elems),
                    remove_element_ret(heap, s, element))
    /\ UNCHANGED <<otherVars, tokens, codecVars>>

SetElements(s, elements) ==
    /\ \A i \in 1..Len(elements) : Acyclic(s, elements[i])
    /\ heap' = set_elements(heap, s, elements)
    /\ last' = Call("set_elements", s, 0, Len(heap[s].elems), "None")
    /\ UNCHANGED <<otherVars, tokens, codecVars>>

RetOf(v) == IF v = Unset THEN "AttributeError" ELSE IF v = None THEN "None" ELSE str(v)

GetStartIndex(s, ignore_punct) ==
    /\ heap' = IF heap[s].start = Unset THEN heap
               ELSE get_start_index_heap(heap, s, ignore_punct)
    /\ last' = Call("get_start_index", s, IF ignore_punct THEN 1 ELSE 0,
                    Len(heap[s].elems), RetOf(get_start_index(heap, s, ignore_punct)))
    /\ UNCHANGED <<otherVars, tokens, codecVars>>

GetEndIndex(s, ignore_punct) ==
    /\ heap' = IF heap[s].end = Unset THEN heap
               ELSE get_end_index_heap(heap, s, ignore_punct)
    /\ last' = Call("get_end_index", s, IF ignore_punct THEN 1 ELSE 0,
                    Len(heap[s].elems), RetOf(get_end_index(heap, s, ignore_punct)))
    /\ UNCHANGED <<otherVars, tokens, codecVars>>

ElementLists == {<<>>} \cup {<<e>> : e \in Elements}

NextSpan ==
    \/ \E elements \in ElementLists : NewSpan("NP", elements)
    \/ \E s \in Ids, e \in Elements : AppendElement(s, e)
    \/ \E s \in Ids, e \in Elements :
          \E i \in 0..(Len(heap[s].elems) + 1) : InsertElement(s, i, e)
    \/ \E s \in Ids, e \in Elements : RemoveElement(s, e)
    \/ \E s \in Ids, l \in ElementLists : SetElements(s, l)
    \/ \E s \in Ids, ip \in BOOLEAN : GetStartIndex(s, ip)
    \/ \E s \in Ids, ip \in BOOLEAN : GetEndIndex(s, ip)

Spec == InitSpan /\ [][NextSpan]_vars

---------------------------------------------------------------------------
(* Specification SpecCodec: decode a tag column, store the spans on the   *)
(* sentence, encode them, decode the written column again, and so on.     *)
(* The run starts from a tag column or, for the Span codec, from a forest.*)

MaxCols == 3       \* columns read or written before the run stops

\* The label of the spans of each level, and the tags of each level.
Labels == <<"NP", "PP">>

SpanLevels ==
    LET Rec[i \in 0..Len(Labels)] ==
            IF i = 0 THEN <<>>
            ELSE Append(Rec[i - 1], {<<"B", Labels[i]>>, <<"I", Labels[i]>>})
    IN  Rec[Len(Labels)]

AntecLevels ==
    << {<<"B", "Antec">>, <<"B", "Antec", "1", "Head">>,
        <<"I", "Antec">>, <<"I", "Antec", "Head">>},
       {<<"B", "Antec", "2">>, <<"I", "Antec">>} >>

\* All stackings of exactly n levels, and of one level or more.
RECURSIVE StackedN(_, _)
StackedN(levels, n) ==
    IF n = 0 THEN {<<>>}
    ELSE {Append(a, x) : a \in StackedN(levels, n - 1), x \in levels[n]}

Stacked(levels) == UNION {StackedN(levels, n) : n \in 1..Len(levels)}

SpanAnnos  == {O} \cup Stacked(SpanLevels)
AntecAnnos == {Underscore} \cup Stacked(AntecLevels)

MovElemAnnos ==
    { Underscore,
      << <<"B", "NP", "insitu", "1">> >>,
      << <<"I", "NP">> >>,
      << <<"B", "RELC", "extrap", "1">> >>,
      << <<"I", "RELC">> >>,
      << <<"B", "ADVC", "VL", "Head">> >>,
      << <<"I", "ADVC">> >>,
      << <<"B", "NP", "insitu">>, <<"B", "PP", "insitu">> >>,
      << <<"I", "NP">>, <<"I", "PP">> >> }

\* The Antec columns a MovElem column comes with: none annotated, or the
\* first token the antecedent of moving element 1.
AntecOf(k) ==
    IF k = 1 THEN << <<"B", "Antec", "1">> >> ELSE Underscore

\* A function on 1..n as the list of its values.
AsSeq(f, n) ==
    LET Rec[k \in 0..n] == IF k = 0 THEN <<>> ELSE Append(Rec[k - 1], f[k])
    IN  Rec[n]

Columns(annos) == {AsSeq(f, NTok) : f \in [1..NTok -> annos]}

NoAntec   == AsSeq([k \in 1..NTok |-> Underscore], NTok)
OneAntec  == AsSeq([k \in 1..NTok |-> AntecOf(k)], NTok)

(* Well-formed forests: a node is a token (tok > 0) or a span with a label *)
(* and a list of nodes that covers a contiguous stretch of the sentence.   *)
Leaf(k)          == [tok |-> k, lab |-> "", kids |-> <<>>]
Node(lab, kids)  == [tok |-> 0, lab |-> lab, kids |-> kids]

\* All lists of nodes that cover exactly the tokens lo..hi, spans being
\* labelled by their depth d.
RECURSIVE Cover(_, _, _)
Cover(lo, hi, d) ==
    IF lo > hi THEN {<<>>}
    ELSE UNION {
           LET first == (IF m = lo THEN {Leaf(lo)} ELSE {})
                        \cup (IF d <= Len(Labels)
                              THEN {Node(Labels[d], kids) :
                                      kids \in Cover(lo, m, d + 1)}
                              ELSE {})
           IN  {<<x>> \o rest : x \in first, rest \in Cover(m + 1, hi, d)}
           : m \in lo..hi }

\* Top-level tokens lie outside every span.
Forests == Cover(1, NTok, 1)

\* Span(label, elements), the elements built first.
RECURSIVE Build(_, _)
Build(h, node) ==
    IF node.tok > 0 THEN [heap |-> h, ref |-> node.tok]
    ELSE LET Kids[i \in 0..Len(node.kids)] ==
                 IF i = 0 THEN [heap |-> h, refs |-> <<>>]
                 ELSE LET prev == Kids[i - 1]
                          r    == Build(prev.heap, node.kids[i])
                      IN  [heap |-> r.heap, refs |-> Append(prev.refs, r.ref)]
             k  == Kids[Len(node.kids)]
             s  == Len(k.heap) + 1
             Init_[i \in 0..Len(k.refs)] ==
                 IF i = 0 THEN Append(k.heap, NewObj("Span", node.lab))
                 ELSE append_element(Init_[i - 1], s, k.refs[i])
         IN  [heap |-> Init_[Len(k.refs)], ref |-> Ref(s)]

\* sentence.spans: the top-level spans of the forest, left to right.
BuildForest(forest) ==
    LET Rec[i \in 0..Len(forest)] ==
            IF i = 0 THEN [heap |-> <<>>, spans |-> <<>>]
            ELSE LET prev == Rec[i - 1]
                     r    == Build(prev.heap, forest[i])
                 IN  IF forest[i].tok > 0 THEN prev
                     ELSE [heap  |-> r.heap,
                           spans |-> Append(prev.spans, SpanOf(r.ref))]
    IN  Rec[Len(forest)]

InitColumn(cls, sentence, column, antec) ==
    /\ codec = cls /\ origin = "column" /\ pc = "begin"
    /\ tokens = sentence
    /\ anno = column /\ antecCol = antec /\ cols = <<column>>
    /\ heap = <<>> /\ spans = <<>> /\ strs = <<>>

\* A client that builds its spans with the constructor starts from the
\* bare sentence.
InitForest ==
    /\ codec = "Span" /\ origin = "forest" /\ pc = "build"
    /\ tokens = WordSentence
    /\ anno = <<>> /\ antecCol = <<>> /\ cols = <<>>
    /\ heap = <<>> /\ spans = <<>> /\ strs = <<>>

\* Only MovElem's encoder reads XPOS, so only its columns come with both
\* sentences.
InitCodec ==
    /\ last = NoCall /\ tok = 0 /\ exc = "none" /\ IdleOther
    /\ span_stack = <<>> /\ antecedents = <<>>
    /\ \/ \E c \in Columns(SpanAnnos) : InitColumn("Span", WordSentence, c, <<>>)
       \/ \E c \in Columns(AntecAnnos) :
              InitColumn("Antecedent", WordSentence, c, <<>>)
       \/ \E c \in Columns(MovElemAnnos), a \in {NoAntec, OneAntec},
             sentence \in Sentences :
              InitColumn("MovElem", sentence, c, a)
       \/ InitForest

Fault(e) ==
    /\ pc' = "fault" /\ exc' = e
    /\ UNCHANGED <<otherVars, tokens, heap, last, codec, tok, anno, antecCol, span_stack,
                   spans, antecedents, origin, cols, strs>>

\* The client's Span(label, elements) calls, innermost spans first.
Construct ==
    /\ pc = "build"
    /\ \E forest \in Forests :
         \E b \in {BuildForest(forest)} :
             /\ heap' = b.heap /\ spans' = b.spans
             /\ strs' = <<Forest_str(b.heap, b.spans)>>
    /\ pc' = "encode"
    /\ UNCHANGED <<otherVars, tokens, last, codec, tok, anno, antecCol, span_stack,
                   antecedents, origin, exc, cols>>

\* spans = []; span_stack = []; MovElem's decoder first reads the
\* antecedents and stores them on the sentence.
Begin ==
    /\ pc = "begin"
    /\ \E r \in {IF codec = "MovElem" THEN Antecedent_decode(<<>>, antecCol)
                  ELSE Dec(<<>>, <<>>, <<>>, "none")} :
           IF r.exc # "none" THEN Fault(r.exc)
           ELSE /\ heap' = r.heap /\ antecedents' = r.spans
                /\ spans' = <<>> /\ span_stack' = <<>>
                /\ pc' = "token" /\ tok' = 1
                /\ UNCHANGED <<otherVars, tokens, last, codec, anno, antecCol, origin,
                               exc, cols, strs>>

\* The decoder state the loop and the code after it work on.
Decoding == Dec(heap, span_stack, spans, "none")

\* One pass of "for tok in sentence.tokens".
DecodeToken ==
    /\ pc = "token"
    /\ \E d \in {CASE codec = "Span"       ->
                          Span_token(Decoding, tok, anno[tok])
                    [] codec = "MovElem"    ->
                          MovElem_token(Decoding, tok, anno[tok], antecedents)
                    [] codec = "Antecedent" ->
                          Antecedent_token(Decoding, tok, anno[tok])} :
           IF d.exc # "none" THEN Fault(d.exc)
           ELSE /\ heap' = d.heap /\ span_stack' = d.stack /\ spans' = d.spans
                /\ IF tok < Len(tokens)
                   THEN tok' = tok + 1 /\ pc' = "token"
                   ELSE tok' = 0 /\ pc' = "finish"
                /\ UNCHANGED <<otherVars, tokens, last, codec, anno, antecCol,
                               antecedents, origin, exc, cols, strs>>

\* The code after the loop; the caller stores the returned list on the
\* sentence.
Finish ==
    /\ pc = "finish"
    /\ \E d \in {CASE codec = "Span"       -> Span_finish(Decoding)
                    [] codec = "MovElem"    -> MovElem_finish(Decoding)
                    [] codec = "Antecedent" -> Antecedent_finish(Decoding)} :
           /\ heap' = d.heap /\ span_stack' = d.stack /\ spans' = d.spans
           /\ antecedents' = IF codec = "Antecedent" THEN d.spans
                             ELSE antecedents
           /\ strs' = Append(strs, Forest_str(d.heap, d.spans))
    /\ pc' = "encode"
    /\ UNCHANGED <<otherVars, tokens, last, codec, tok, anno, antecCol, origin, exc, cols>>

\* span_to_BIO_annotation on the stored spans.
Encode ==
    /\ pc = "encode"
    /\ \E e \in {CASE codec = "Span"       -> Span_to_BIO(heap, spans)
                    [] codec = "MovElem"    -> MovElem_to_BIO(heap, spans)
                    [] codec = "Antecedent" -> Antecedent_to_BIO(heap, spans)} :
           IF e.exc # "none" THEN Fault(e.exc)
           ELSE /\ heap' = e.heap /\ anno' = e.column
                /\ cols' = Append(cols, e.column)
                /\ pc' = IF Len(cols) + 1 >= MaxCols THEN "done" ELSE "begin"
                /\ UNCHANGED <<otherVars, tokens, last, codec, tok, antecCol, span_stack,
                               spans, antecedents, origin, exc, strs>>

NextCodec == Construct \/ Begin \/ DecodeToken \/ Finish \/ Encode

SpecCodec == InitCodec /\ [][NextCodec]_vars

---------------------------------------------------------------------------
(* Claims about the Span mutators and index getters (specification Spec)   *)

IsGetter(op) == op \in {"get_start_index", "get_end_index"}

\* The value the punctuation-inclusive getter named op returns on span s.
Inclusive(op, s) ==
    IF op = "get_start_index" THEN get_start_index(heap, s, FALSE)
    ELSE get_end_index(heap, s, FALSE)

AllPunct(s) ==
    /\ get_tokens(heap, s) # <<>>
    /\ \A i \in 1..Len(get_tokens(heap, s)) : IsPunct(get_tokens(heap, s)[i])

RejectedInsert == last.op = "insert_element" /\ last.index > last.n

\* C7 (as claimed): after any sequence of mutator calls, c is an element
\* of p if and only if c's parent reference is p.
C7_ParentChildConsistent ==
    \A c \in Ids, p \in Ids :
        Contains(heap[p].elems, Ref(c)) <=> heap[c].parent = p

\* C8 (as claimed): an insert_element beyond the current length returns
\* something a successful insertion does not return.
C8_RejectedInsertSignalled ==
    RejectedInsert =>
        \A e \in Elements :
            last.ret # insert_element_ret(heap, last.self, Len(heap[last.self].elems), e)

\* C8 (amended): an insert_element beyond the current length does not
\* insert the element and returns None, the value a successful insertion
\* returns too.
C8_RejectedInsertReturnsNone ==
    RejectedInsert =>
        /\ last.ret = "None"
        /\ Len(heap[last.self].elems) = last.n
        /\ \A e \in Elements :
              last.ret = insert_element_ret(heap, last.self, Len(heap[last.self].elems), e)

C8_Witness == RejectedInsert /\ last.n > 0

C10_EmptySpanIsAbsent ==
    (IsGetter(last.op) /\ len(heap, last.self) = 0) => last.ret = "None"

---------------------------------------------------------------------------
(* Claims about the codec (specification SpecCodec) *)

\* A decoder has returned and its list is stored on the sentence.
Decoded == pc = "encode" /\ ~(origin = "forest" /\ Len(strs) = 1)

\* The spans the running decoder's class has created.
Created == {s \in 1..Len(heap) : heap[s].cls = codec}

\* r is s or dominates s.
Reaches(h, r, s) == r = s \/ Dominates(h, r, s)

\* The number of B- tags of a column.
RECURSIVE CountB(_)
CountB(column) ==
    IF column = <<>> THEN 0
    ELSE Cardinality({i \in 1..Len(column[1]) : IsB(column[1][i])})
         + CountB(Tail(column))

\* C1: the Span decoder applied to the tags the Span encoder writes for a
\* well-formed forest returns an isomorphic forest (same top-level spans
\* in the same order, same labels, nesting and token membership), and
\* neither call fails.
C1_SpanRoundTrip ==
    origin = "forest" =>
        /\ Len(strs) < 2 => pc # "fault"
        /\ Len(strs) >= 2 => strs[2] = strs[1]

\* C2: once an Antec column has been decoded and encoded to T', decoding
\* and encoding T' yields T' again, and the number of B- tags does not
\* grow.
C2_AntecIdempotent ==
    (codec = "Antecedent" /\ Len(cols) >= 3) =>
        /\ cols[3] = cols[2]
        /\ CountB(cols[3]) <= CountB(cols[2])

\* Token 1 opens a span at each of k levels, tokens 2..m continue every
\* level, the tokens after m are not annotated.
StackedColumn(column, k, m) ==
    /\ Len(column[1]) = k
    /\ \A i \in 1..k : IsB(column[1][i])
    /\ \A t \in 2..m : Len(column[t]) = k /\ \A i \in 1..k : IsI(column[t][i])
    /\ \A t \in (m + 1)..Len(column) : column[t] = O

\* The spans form one chain: the root is returned, each next span is the
\* child of the one before, and each dominates the tokens 1..m once each.
StackedSpans(h, out, k, m) ==
    /\ Len(h) = k /\ out = <<1>>
    /\ \A s \in 1..k :
         /\ h[s].parent = s - 1
         /\ s > 1 => Contains(h[s - 1].elems, Ref(s))
         /\ len(h, s) = m
         /\ \A t \in 1..m : get_tokens(h, s)[t] = t
         /\ s < k => \A t \in 1..m : ~Contains(h[s].elems, t)

\* C3: decoding a column of stacked levels yields one root with the span
\* of each next level as the child of the level before; every span
\* dominates each covered token exactly once, and an I- token is an
\* element of the deepest span only.
C3_StackedLevels ==
    (codec = "Span" /\ origin = "column" /\ Len(strs) = 1 /\ pc = "encode") =>
        \A k \in 1..Len(Labels), m \in 1..NTok :
            StackedColumn(cols[1], k, m) => StackedSpans(heap, spans, k, m)

\* C4: a decoder returns top-level spans only: no returned span has a
\* parent or is an element of a span, and every span the decoder created
\* is reachable from exactly one entry of the returned list.
C4_TopLevelOnly ==
    Decoded =>
        /\ \A k \in 1..Len(spans) : heap[spans[k]].parent = 0
        /\ \A k \in 1..Len(spans), p \in Created :
               ~Contains(heap[p].elems, Ref(spans[k]))
        /\ \A s \in Created :
               Cardinality({k \in 1..Len(spans) : Reaches(heap, spans[k], s)}) = 1

\* C5: an I- tag at a level where no span is open does not make the
\* decoder raise.
C5_MalformedNeverRaises ==
    ~(pc = "fault" /\ exc = "IndexError")

\* Every I- tag continues a span of its label that the token before has
\* open at the same level.
WellFormed(column) ==
    \A t \in 1..Len(column) : \A i \in 1..Len(column[t]) :
        IsI(column[t][i]) =>
            /\ t > 1 /\ Len(column[t - 1]) >= i
            /\ Len(column[t - 1][i]) >= 2
            /\ column[t - 1][i][2] = column[t][i][2]

\* What follows the label in each level tag of each token.
Suffixes(column) ==
    LET Level(a) ==
            LET Rec[i \in 0..Len(a)] ==
                    IF i = 0 THEN <<>>
                    ELSE Append(Rec[i - 1], SubSeq(a[i], 3, Len(a[i])))
            IN  Rec[Len(a)]
        Rec[t \in 0..Len(column)] ==
            IF t = 0 THEN <<>> ELSE Append(Rec[t - 1], Level(column[t]))
    IN  Rec[Len(column)]

\* C6: decoding a well-formed MovElem or Antec column and encoding the
\* result writes on every token the suffixes (position, verb position,
\* id, Head) the column had.
C6_SuffixesPreserved ==
    (codec \in {"MovElem", "Antecedent"} /\ Len(cols) >= 2
        /\ WellFormed(cols[1])) =>
        Suffixes(cols[2]) = Suffixes(cols[1])

---------------------------------------------------------------------------
(* Specification SpecIndex: the index computation of Span on tokens whose  *)
(* ID is missing or is not a number.                                       *)

Missing  == "<missing>"   \* a Token object without the attribute ID
Suffixed == "3-1"         \* an ID add_token keeps as it is
RawID    == -3            \* an index field left holding the raw ID string

\* The IDs the k-th token object can carry.
TokenIDs(k) == {str(k), Suffixed, Missing}

Res(h, e) == [heap |-> h, exc |-> e]

\* self.start = tokens[0].__dict__.get("ID", None)
\* if self.start: self.start = int(self.start)-1
Convert(id) ==
    IF id = Missing THEN [val |-> None, exc |-> "none"]
    ELSE IF IsNumeric(id) THEN [val |-> int(id) - 1, exc |-> "none"]
    ELSE [val |-> RawID, exc |-> "ValueError"]

SetIndex(h, s, isEnd, v) ==
    IF isEnd THEN [h EXCEPT ![s].end = v] ELSE [h EXCEPT ![s].start = v]

\* The assignment to self.start (self.end) from the first (last) token.
AssignIndex(h, s, isEnd, toks) ==
    IF toks = <<>> THEN Res(SetIndex(h, s, isEnd, None), "none")
    ELSE LET t == IF isEnd THEN Last(toks) ELSE toks[1]
         IN  Res(SetIndex(h, s, isEnd, Convert(tokens[t].ID).val),
                 Convert(tokens[t].ID).exc)

\* update_start_index / update_end_index with the exception they end in;
\* try_update_elems is "for e in self.elems: e.update_..._index()" from the
\* i-th element on.
RECURSIVE try_update_index(_, _, _), try_update_elems(_, _, _, _)
try_update_elems(r, s, isEnd, i) ==
    IF r.exc # "none" \/ i > Len(r.heap[s].elems) THEN r
    ELSE try_update_elems(
             IF IsTok(r.heap[s].elems[i]) THEN r
             ELSE try_update_index(r.heap, SpanOf(r.heap[s].elems[i]), isEnd),
             s, isEnd, i + 1)

try_update_index(h, s, isEnd) ==
    IF h[s].elems = <<>> THEN Res(SetIndex(h, s, isEnd, None), "none")
    ELSE try_update_elems(AssignIndex(h, s, isEnd, get_tokens(h, s)),
                          s, isEnd, 1)

try_update_start_index(h, s) == try_update_index(h, s, FALSE)
try_update_end_index(h, s)   == try_update_index(h, s, TRUE)

\* The next statement runs only if the one before did not raise.
ThenUpdate(r, s, isEnd) ==
    IF r.exc # "none" THEN r ELSE try_update_index(r.heap, s, isEnd)

try_set_elements(h, s, elements) ==
    ThenUpdate(try_update_start_index(
                   SetParents([h EXCEPT ![s].elems = elements], elements, s), s),
               s, TRUE)

try_append_element(h, s, element) ==
    IF h[s].elems = <<>>
    THEN ThenUpdate(ThenUpdate(try_set_elements(h, s, <<element>>), s, FALSE),
                    s, FALSE)
    ELSE try_update_end_index(
             [(IF IsSpan(element) THEN set_parent(h, SpanOf(element), s) ELSE h)
                 EXCEPT ![s].elems = Append(@, element)], s)

Got(h, v, e) == [heap |-> h, val |-> v, exc |-> e]

Field(h, s, isEnd) == IF isEnd THEN h[s].end ELSE h[s].start

\* return self.start after the refresh r
Cached(r, s, isEnd) ==
    IF r.exc # "none" THEN Got(r.heap, None, r.exc)
    ELSE Got(r.heap, Field(r.heap, s, isEnd), "none")

\* return int(t.ID)-1 for the word t the loop stops at
IndexOfWord(h, t) ==
    IF tokens[t].ID = Missing THEN Got(h, None, "AttributeError")
    ELSE IF ~IsNumeric(tokens[t].ID) THEN Got(h, None, "ValueError")
    ELSE Got(h, int(tokens[t].ID) - 1, "none")

\* for t in tokens (in reversed(tokens)):
\*     if not t.XPOS.startswith("$"): return int(t.ID)-1
\* where words are the tokens that are not punctuation.
FirstWord(h, words, isEnd) ==
    IF words = <<>> THEN Got(h, None, "none")
    ELSE IndexOfWord(h, IF isEnd THEN Last(words) ELSE words[1])

\* get_start_index / get_end_index: the heap after the call, the value
\* returned and the exception raised.
try_get_index(h, s, isEnd, ignore_punct) ==
    IF ~ignore_punct
    THEN IF Field(h, s, isEnd) = Unset THEN Got(h, None, "AttributeError")
         ELSE IF Field(h, s, isEnd) = None
         THEN Cached(try_update_index(h, s, isEnd), s, isEnd)
         ELSE Got(h, Field(h, s, isEnd), "none")
    ELSE IF h[s].elems = <<>> THEN Got(h, None, "none")
    ELSE FirstWord(h, NoPunct(get_tokens(h, s)), isEnd)

\* What the caller sees: the exception, or the returned value.
Seen(g) ==
    IF g.exc # "none" THEN g.exc
    ELSE IF g.val = None THEN "None"
    ELSE IF g.val = RawID THEN "str"
    ELSE str(g.val)

IndexSentences ==
    {[k \in 1..NTok |-> [ID |-> ids[k], XPOS |-> sentence[k].XPOS]] :
        ids \in {f \in [1..NTok -> {str(k) : k \in 1..NTok} \cup {Suffixed, Missing}] :
                    \A k \in 1..NTok : f[k] \in TokenIDs(k)},
        sentence \in Sentences}

InitIndex ==
    /\ tokens \in IndexSentences
    /\ heap = <<>>
    /\ last = NoCall
    /\ IdleCodec /\ IdleOther

\* s.append_element(tok) for a token object
TryAppendElement(s, t) ==
    /\ Len(heap[s].elems) < MaxElems
    /\ \E r \in {try_append_element(heap, s, t)} :
         /\ heap' = r.heap
         /\ last' = Call("append_element", s, 0, Len(heap[s].elems),
                         IF r.exc # "none" THEN r.exc ELSE "None")
    /\ UNCHANGED <<otherVars, tokens, codecVars>>

UpdateIndex(s, isEnd) ==
    /\ \E r \in {try_update_index(heap, s, isEnd)} :
         /\ heap' = r.heap
         /\ last' = Call(IF isEnd THEN "update_end_index"
                         ELSE "update_start_index", s, 0, Len(heap[s].elems),
                         IF r.exc # "none" THEN r.exc ELSE "None")
    /\ UNCHANGED <<otherVars, tokens, codecVars>>

GetIndex(s, isEnd, ignore_punct) ==
    /\ \E g \in {try_get_index(heap, s, isEnd, ignore_punct)} :
         /\ heap' = g.heap
         /\ last' = Call(IF isEnd THEN "get_end_index" ELSE "get_start_index",
                         s, IF ignore_punct THEN 1 ELSE 0, Len(heap[s].elems),
                         Seen(g))
    /\ UNCHANGED <<otherVars, tokens, codecVars>>

NextIndex ==
    \/ NewSpan("NP", <<>>)
    \/ \E s \in Ids, t \in 1..NTok : TryAppendElement(s, t)
    \/ \E s \in Ids, isEnd \in BOOLEAN : UpdateIndex(s, isEnd)
    \/ \E s \in Ids, isEnd \in BOOLEAN, ip \in BOOLEAN : GetIndex(s, isEnd, ip)

SpecIndex == InitIndex /\ [][NextIndex]_vars

(* Claims about the index computation (specification SpecIndex) *)

IndexOps == {"update_start_index", "update_end_index",
             "get_start_index", "get_end_index"}

IsEndOp(op) == op \in {"update_end_index", "get_end_index"}

\* The token whose ID the call recorded in last reads: the first (last)
\* token of the span, or its first (last) word when punctuation is ignored;
\* 0 if there is none.
TokenRead ==
    LET all  == get_tokens(heap, last.self)
        toks == IF last.index = 1 THEN NoPunct(all) ELSE all
    IN  IF toks = <<>> THEN 0
        ELSE IF IsEndOp(last.op) THEN Last(toks) ELSE toks[1]

BadID(t) == t # 0 /\ tokens[t].ID \in {Suffixed, Missing}

\* C11: an index computation on a span whose first (last) token has a
\* missing or non-numeric ID does not raise and yields the absent index:
\* update_start_index / update_end_index leave None in the field, and
\* get_start_index / get_end_index return None, with either value of
\* ignore_punct.
C11_BadIDYieldsNone ==
    (last.op \in IndexOps /\ BadID(TokenRead)) =>
        /\ last.ret = "None"
        /\ last.op \in {"update_start_index", "update_end_index"} =>
              Field(heap, last.self, IsEndOp(last.op)) = None

---------------------------------------------------------------------------
(* add_dict (src/src/helper_functions.py)                                  *)
(*                                                                         *)
(* A Python dictionary is a function from a fixed universe of keys to      *)
(* value records; a key the dictionary does not hold maps to Absent.  A    *)
(* value record carries its type in t and its content in the field of     *)
(* that type: n for a number, l for a list, s for a set, d for a           *)
(* dictionary.  A float is the fraction n / q in lowest terms (rounding    *)
(* is not modelled); an int has q = 1.  Top-level values have all six      *)
(* fields, values inside an inner dictionary have no field d (the result   *)
(* dictionaries nest two levels where this model reads them).              *)

MaxDicts  == 3     \* dictionaries in a fold of add_dict

TopKeys   == {"a", "b"}
InnerKeys == {"c", "d"}

RECURSIVE Gcd(_, _)
Gcd(a, b) == IF b = 0 THEN a ELSE Gcd(b, a % b)

Absent    == [t |-> "absent", n |-> 0, q |-> 1, l |-> <<>>, s |-> {}]
Num(n)    == [t |-> "int",    n |-> n, q |-> 1, l |-> <<>>, s |-> {}]
Flt(n, q) == [t |-> "float",  n |-> n \div Gcd(n, q), q |-> q \div Gcd(n, q),
              l |-> <<>>, s |-> {}]
List(l)   == [t |-> "list",   n |-> 0, q |-> 1, l |-> l,    s |-> {}]
Set(s)    == [t |-> "set",    n |-> 0, q |-> 1, l |-> <<>>, s |-> s]
Str       == [t |-> "str",    n |-> 0, q |-> 1, l |-> <<>>, s |-> {}]

EmptyInner == [key \in InnerKeys |-> Absent]
EmptyDict  == [key \in TopKeys |->
                  [t |-> "absent", n |-> 0, q |-> 1, l |-> <<>>, s |-> {},
                   d |-> EmptyInner]]

Top(v)   == [t |-> v.t, n |-> v.n, q |-> v.q, l |-> v.l, s |-> v.s,
             d |-> EmptyInner]
Dict(d)  == [t |-> "dict", n |-> 0, q |-> 1, l |-> <<>>, s |-> {}, d |-> d]

\* isinstance(v, (int, float))
Numeric(v) == v.t \in {"int", "float"}

\* b += val on numbers: an int if both are, a float otherwise.
Plus(b, val) ==
    [b EXCEPT !.t = IF b.t = "int" /\ val.t = "int" THEN "int" ELSE "float",
              !.n = (b.n * val.q + val.n * b.q)
                        \div Gcd(b.n * val.q + val.n * b.q, b.q * val.q),
              !.q = (b.q * val.q)
                        \div Gcd(b.n * val.q + val.n * b.q, b.q * val.q)]

\* isinstance(v, Iterable): lists, sets, dictionaries and strings are.
Iterable(v) == v.t \in {"list", "set", "dict", "str"}

RECURSIVE add_dict(_, _)

\* One pass of the loop `for key, val in dict_to_add.items()`; b is
\* base_dict's entry for the key, Absent if base_dict does not hold it.
add_item_keeping(b, val) == IF b.t # "absent" THEN b ELSE val

add_item(b, val) ==
    IF b.t # "absent"
    THEN IF Numeric(val) /\ Numeric(b) THEN Plus(b, val)
         ELSE IF Iterable(val) /\ Iterable(b)
              THEN IF val.t = "list" /\ b.t = "list"
                   THEN [b EXCEPT !.l = @ \o val.l]
                   ELSE IF val.t = "set" /\ b.t = "set"
                   THEN [b EXCEPT !.s = @ \cup val.s]
                   ELSE IF val.t = "dict" /\ b.t = "dict"
                   THEN [b EXCEPT !.d = add_dict(@, val.d)]
                   ELSE b
              ELSE b
    ELSE val

add_dict_replacing(base_dict, dict_to_add) ==
    [key \in DOMAIN base_dict |->
        IF dict_to_add[key].t = "absent" THEN base_dict[key]
        ELSE dict_to_add[key]]

add_dict(base_dict, dict_to_add) ==
    [key \in DOMAIN base_dict |->
        IF dict_to_add[key].t = "absent" THEN base_dict[key]
        ELSE add_item(base_dict[key], dict_to_add[key])]

(* The dictionaries of the model *)

InnerDicts == {[c |-> vc, d |-> vd] :
                  vc \in {Absent, Num(1), Num(2), List(<<1>>)},
                  vd \in {Absent, Num(2)}}

Leaves == {Absent, Num(1), Num(2), Flt(1, 2), List(<<1>>), List(<<2>>),
           Set({1}), Set({2}), Str}

TopValues == {Top(v) : v \in Leaves} \cup {Dict(d) : d \in InnerDicts}

AnyDicts == {[a |-> va, b |-> vb] :
                va \in TopValues, vb \in {Top(Absent), Top(Num(1))}}

\* Dictionaries shaped like the evaluation results: key a holds a
\* dictionary of counts (as "per_label" and "Antec" do), key b a count,
\* and any key can be missing (a label or distance bucket no span of the
\* sentence or file has).
Counts(v) == v.t \in {"absent", "int"}
ResultDict(dict) ==
    /\ dict.a.t \in {"absent", "dict"}
    /\ \A k \in InnerKeys : Counts(dict.a.d[k])
    /\ Counts(dict.b)
ResultDicts == {dict \in AnyDicts : ResultDict(dict)}

InitDict ==
    /\ tokens = WordSentence /\ heap = <<>> /\ last = NoCall /\ IdleCodec
    /\ \/ \E f \in [1..2 -> AnyDicts] : dicts = AsSeq(f, 2)
       \/ \E f \in [1..MaxDicts -> ResultDicts] : dicts = AsSeq(f, MaxDicts)
    /\ acc = EmptyDict /\ prevAcc = EmptyDict /\ folded = <<>>
    /\ IdleBesideDict

\* for f in ...: add_dict(overall, per_file[f]), the files in any order
AddDict(i) ==
    /\ \A j \in 1..Len(folded) : folded[j] # i
    /\ prevAcc' = acc
    /\ acc' = add_dict(acc, dicts[i])
    /\ folded' = Append(folded, i)
    /\ UNCHANGED <<dicts, besideDict, tokens, spanVars, codecVars>>

NextDict == \E i \in 1..Len(dicts) : AddDict(i)

SpecDict == InitDict /\ [][NextDict]_vars

\* What the claim says of one entry: b before the call, val added, r after.
Merged(b, val, r) ==
    IF val.t = "absent" THEN r = b
    ELSE IF b.t = "absent" THEN r = val
    ELSE IF b.t = "int" /\ val.t = "int"
         THEN r.t = "int" /\ r.n = b.n + val.n
    ELSE IF b.t \in {"int", "float"} /\ val.t \in {"int", "float"}
         THEN /\ r.t = "float"
              /\ r.n * b.q * val.q = (b.n * val.q + val.n * b.q) * r.q
    ELSE IF b.t = "list" /\ val.t = "list"
         THEN r.t = "list" /\ r.l = b.l \o val.l
    ELSE IF b.t = "set" /\ val.t = "set"
         THEN r.t = "set" /\ r.s = b.s \cup val.s
    ELSE IF b.t = "dict" /\ val.t = "dict" THEN r.t = "dict"
    ELSE r = b

LastAdded == dicts[Last(folded)]

\* C12: add_dict is an additive merge: for every key of dict_to_add that
\* base_dict holds, numbers are summed, lists concatenated, sets united and
\* dictionaries merged by the same rule one level down, and values of
\* incompatible types leave the entry as it was; a key base_dict does not
\* hold is inserted with the added value; every other entry is unchanged.
C12_AddDictMerges ==
    folded # <<>> =>
        \A key \in TopKeys :
            /\ Merged(prevAcc[key], LastAdded[key], acc[key])
            /\ (prevAcc[key].t = "dict" /\ LastAdded[key].t = "dict") =>
                   \A k \in InnerKeys :
                       Merged(prevAcc[key].d[k], LastAdded[key].d[k],
                              acc[key].d[k])

\* A nested merge that sums one inner count, inserts another inner key and
\* leaves an entry of an incompatible type alone has happened.
C12_Witness ==
    /\ Len(folded) = 2
    /\ prevAcc.a.t = "dict" /\ LastAdded.a.t = "dict"
    /\ prevAcc.a.d.c = Num(1) /\ LastAdded.a.d.c = Num(1)
    /\ acc.a.d.c = Num(2)
    /\ prevAcc.a.d.d = Absent /\ acc.a.d.d = Num(2)
    /\ prevAcc.b.t = "int" /\ acc.b.n = 2

RECURSIVE FoldDicts(_, _)
\* The fold over the first n dictionaries in the order of the collection.
FoldDicts(ds, n) ==
    IF n = 0 THEN EmptyDict ELSE add_dict(FoldDicts(ds, n - 1), ds[n])

---------------------------------------------------------------------------
(* Metrics and corpus-level results (src/src/evaluation.py)                *)
(*                                                                         *)
(* A result dictionary is held flat: a key is the path of a count block    *)
(* ("overall/fair" is eval_dict["overall"]["fair"]) and its value the      *)
(* block, a dictionary from count and metric names to numbers.  add_dict   *)
(* descends through the levels above a block by its dictionary rule.       *)

MaxFiles == 2      \* files in eval_dict["per_file"]

MetricKeys == {"TP", "FP", "FN", "BE", "Correct", "IL", "BEright",
               "TP_Head_Correct", "FP_Head_Correct", "FN_Head_Correct",
               "TP_Head_Right", "FP_Head_Right", "FN_Head_Right",
               "TP_Head_All", "FP_Head_All", "FN_Head_All",
               "Prec", "Rec", "F1", "F1right",
               "Head_Correct_Prec", "Head_Correct_Rec", "Head_Correct_F1",
               "Head_Right_Prec", "Head_Right_Rec", "Head_Right_F1",
               "Head_All_Prec", "Head_All_Rec", "Head_All_F1"}

DerivedKeys == {"Prec", "Rec", "F1", "F1right",
                "Head_Correct_Prec", "Head_Correct_Rec", "Head_Correct_F1",
                "Head_Right_Prec", "Head_Right_Rec", "Head_Right_F1",
                "Head_All_Prec", "Head_All_Rec", "Head_All_F1"}

EvalLabels == <<"NP", "PP">>

SpanBlocks  == {"overall/traditional", "overall/fair",
                "per_label/traditional/NP", "per_label/traditional/PP",
                "per_label/fair/NP", "per_label/fair/PP"}
RelcBlocks  == {"MovElem/RELC/traditional", "MovElem/RELC/fair"}
AntecBlocks == {"Antec/1", "Antec/2", "Antec/overall"}
BlockKeys   == SpanBlocks \cup RelcBlocks \cup AntecBlocks

\* The evaluation method a block of span counts is scored with.
Version(block) ==
    IF block \in {"overall/fair", "per_label/fair/NP", "per_label/fair/PP",
                  "MovElem/RELC/fair"}
    THEN "fair" ELSE "traditional"

NoMetrics   == [k \in MetricKeys |-> Absent]
NoBlock     == [t |-> "absent", n |-> 0, q |-> 1, l |-> <<>>, s |-> {},
                d |-> NoMetrics]
EmptyBlocks == [block \in BlockKeys |-> NoBlock]

\* evaldict[key] = value
Put(evaldict, key, value) ==
    [k \in DOMAIN evaldict |-> IF k = key THEN value ELSE evaldict[k]]

(* Numbers as fractions *)

Frac(n, q)  == [n |-> n \div Gcd(n, q), q |-> q \div Gcd(n, q)]
Zero        == Frac(0, 1)
QAdd(x, y)  == Frac(x.n * y.q + y.n * x.q, x.q * y.q)
QSub(x, y)  == Frac(x.n * y.q - y.n * x.q, x.q * y.q)
QHalf(x)    == Frac(x.n, 2 * x.q)
QMul(x, y)  == Frac(x.n * y.n, x.q * y.q)
QDiv(x, y)  == IF y.n = 0 THEN Zero ELSE Frac(x.n * y.q, x.q * y.n)
Float(x)    == Flt(x.n, x.q)

\* evaldict[key] as a number; a block without the key counts nothing there.
Get(evaldict, key) == [n |-> evaldict[key].n, q |-> evaldict[key].q]

(* FairEval.precision, FairEval.recall, FairEval.fscore.  The argument is  *)
(* the record of the counts the functions read.                            *)

\* The counts of a block as the record precision and recall read.
CountsOf(evaldict) ==
    [TP |-> Get(evaldict, "TP"), FP |-> Get(evaldict, "FP"),
     FN |-> Get(evaldict, "FN"), BE |-> Get(evaldict, "BE"),
     BEright |-> Zero]

\* Weighted totals: with the weights calculate_metrics_antecedent passes,
\* BEright counts as a TP and a BE as half a FP and half a FN; the fair
\* method gives a BE the same half credit; the traditional method reads
\* TP, FP and FN only.
TPw(c, version) == IF version = "weighted" THEN QAdd(c.TP, c.BEright) ELSE c.TP
FPw(c, version) ==
    IF version = "traditional" THEN c.FP ELSE QAdd(c.FP, QHalf(c.BE))
FNw(c, version) ==
    IF version = "traditional" THEN c.FN ELSE QAdd(c.FN, QHalf(c.BE))

precision(c, version) ==
    QDiv(TPw(c, version), QAdd(TPw(c, version), FPw(c, version)))

recall(c, version) ==
    QDiv(TPw(c, version), QAdd(TPw(c, version), FNw(c, version)))

\* The harmonic mean of precision p and recall r.
fscore(p, r) == QDiv(QMul(Frac(2, 1), QMul(p, r)), QAdd(p, r))

(* calculate_metrics *)

SetPrec(evaldict, c, version) ==
    Put(evaldict, "Prec", Float(precision(c, version)))
SetRec(evaldict, c, version) ==
    Put(evaldict, "Rec", Float(recall(c, version)))
SetF1(evaldict) ==
    Put(evaldict, "F1", Float(fscore(Get(evaldict, "Prec"),
                                     Get(evaldict, "Rec"))))

calculate_metrics(evaldict, version) ==
    CHOOSE result \in
        {SetF1(e2) : e2 \in
            {SetRec(e1, c, version) : e1 \in
                {SetPrec(evaldict, c, version) : c \in {CountsOf(evaldict)}},
             c \in {CountsOf(evaldict)}}} : TRUE

(* calculate_metrics_antecedent *)

fair_eval_dict_whole(evaldict) ==
    [TP |-> Get(evaldict, "Correct"),
     FP |-> QAdd(Get(evaldict, "FP"), Get(evaldict, "IL")),
     FN |-> QAdd(Get(evaldict, "FN"), Get(evaldict, "IL")),
     BE |-> Get(evaldict, "BE"),
     BEright |-> Zero]

\* fair_eval_dict as first built: an IL is half a FP and half a FN.
fair_eval_dict(evaldict) ==
    [TP |-> Get(evaldict, "Correct"),
     FP |-> QAdd(Get(evaldict, "FP"), QHalf(Get(evaldict, "IL"))),
     FN |-> QAdd(Get(evaldict, "FN"), QHalf(Get(evaldict, "IL"))),
     BE |-> Get(evaldict, "BE"),
     BEright |-> Zero]

\* fair_eval_dict after BEright is taken out of BE.
fair_eval_dict_right(evaldict) ==
    [fair_eval_dict(evaldict) EXCEPT
        !.BEright = Get(evaldict, "BEright"),
        !.BE = QSub(Get(evaldict, "BE"), Get(evaldict, "BEright"))]

SetF1right(evaldict, c) ==
    Put(evaldict, "F1right",
        Float(fscore(precision(c, "weighted"), recall(c, "weighted"))))

HeadKeys(group) ==
    IF group = "Correct"
    THEN [TP |-> "TP_Head_Correct", FP |-> "FP_Head_Correct",
          FN |-> "FN_Head_Correct", Prec |-> "Head_Correct_Prec",
          Rec |-> "Head_Correct_Rec", F1 |-> "Head_Correct_F1"]
    ELSE IF group = "Right"
    THEN [TP |-> "TP_Head_Right", FP |-> "FP_Head_Right",
          FN |-> "FN_Head_Right", Prec |-> "Head_Right_Prec",
          Rec |-> "Head_Right_Rec", F1 |-> "Head_Right_F1"]
    ELSE [TP |-> "TP_Head_All", FP |-> "FP_Head_All",
          FN |-> "FN_Head_All", Prec |-> "Head_All_Prec",
          Rec |-> "Head_All_Rec", F1 |-> "Head_All_F1"]

head_eval_dict(evaldict, keys) ==
    [TP |-> Get(evaldict, keys.TP), FP |-> Get(evaldict, keys.FP),
     FN |-> Get(evaldict, keys.FN), BE |-> Zero, BEright |-> Zero]

SetHead(evaldict, keys, c) ==
    Put(Put(Put(evaldict, keys.Prec, Float(precision(c, "traditional"))),
            keys.Rec, Float(recall(c, "traditional"))),
        keys.F1, Float(fscore(precision(c, "traditional"),
                              recall(c, "traditional"))))

EvaluateHeads(evaldict, group) ==
    CHOOSE result \in
        {SetHead(evaldict, HeadKeys(group), c) : c \in
            {head_eval_dict(evaldict, HeadKeys(group))}} : TRUE

\* The statements up to evaldict["F1right"] = ...
EvaluateSpans(evaldict) ==
    CHOOSE result \in
        {SetF1right(e3, cr) : e3 \in
            {SetF1(e2) : e2 \in
                {SetRec(e1, c, "fair") : e1 \in
                    {SetPrec(evaldict, c, "fair") : c \in
                        {fair_eval_dict(evaldict)}},
                 c \in {fair_eval_dict(evaldict)}}},
         cr \in {fair_eval_dict_right(evaldict)}} : TRUE

calculate_metrics_antecedent(evaldict) ==
    CHOOSE result \in
        {EvaluateHeads(e3, "All") : e3 \in
            {EvaluateHeads(e2, "Right") : e2 \in
                {EvaluateHeads(e1, "Correct") : e1 \in
                    {EvaluateSpans(evaldict)}}}} : TRUE

\* The metric calls at the end of evaluate_file and of overall_results: one
\* for every block the dictionary holds.
CalculateAll(blocks, anno_name) ==
    [block \in DOMAIN blocks |->
        IF blocks[block].t = "absent" THEN blocks[block]
        ELSE IF block \in SpanBlocks \/ (block \in RelcBlocks
                                         /\ anno_name = "extrap")
        THEN Dict(calculate_metrics(blocks[block].d, Version(block)))
        ELSE IF block \in AntecBlocks /\ anno_name = "extrap"
        THEN Dict(calculate_metrics_antecedent(blocks[block].d))
        ELSE blocks[block]]

(* The counts of one file *)

Freqs == {0, 1}    \* how many spurious system spans a file has

\* What the sentences of a file add up to.  A file has one gold span with
\* its antecedent, and the system finds it exactly (TP), misses it (FN),
\* finds it with a boundary error (BE) or at an incorrect location (IL);
\* the system has fp spurious spans besides; the span carries label
\* EvalLabels[key] and its antecedent stands at distance key.
FileCounts == [found : {"TP", "FN", "BE", "IL"}, fp : Freqs,
               key : 1..Len(EvalLabels)]

Freq(cond) == IF cond THEN Num(1) ELSE Num(0)

SpanCounts(c, version) ==
    IF version = "traditional"
    THEN [k \in MetricKeys |->
            IF k = "TP" THEN Freq(c.found = "TP")
            ELSE IF k = "FP"
            THEN Num(c.fp + (IF c.found \in {"BE", "IL"} THEN 1 ELSE 0))
            ELSE IF k = "FN" THEN Freq(c.found # "TP")
            ELSE Absent]
    ELSE [k \in MetricKeys |->
            IF k = "TP" THEN Freq(c.found = "TP")
            ELSE IF k = "FP"
            THEN Num(c.fp + (IF c.found = "IL" THEN 1 ELSE 0))
            ELSE IF k = "FN" THEN Freq(c.found \in {"FN", "IL"})
            ELSE IF k = "BE" THEN Freq(c.found = "BE")
            ELSE Absent]

AntecCounts(c) ==
    [k \in MetricKeys |->
        IF k \in DerivedKeys \/ k = "TP" THEN Absent
        ELSE IF k \in {"Correct", "TP_Head_Correct"} THEN Freq(c.found = "TP")
        ELSE IF k = "IL" THEN Freq(c.found = "IL")
        ELSE IF k = "FP" THEN Num(c.fp)
        ELSE IF k = "FN" THEN Freq(c.found = "FN")
        ELSE IF k \in {"BE", "BEright"} THEN Freq(c.found = "BE")
        ELSE IF k = "TP_Head_Right" THEN Freq(c.found \in {"TP", "BE"})
        ELSE IF k = "TP_Head_All" THEN Freq(c.found \in {"TP", "BE"})
        ELSE IF k \in {"FP_Head_All", "FN_Head_All"} THEN Freq(c.found = "IL")
        ELSE Num(0)]

LabelOf(block) ==
    IF block \in {"per_label/traditional/NP", "per_label/fair/NP"} THEN 1
    ELSE IF block \in {"per_label/traditional/PP", "per_label/fair/PP"} THEN 2
    ELSE 0

BucketOf(block) ==
    IF block = "Antec/1" THEN 1 ELSE IF block = "Antec/2" THEN 2 ELSE 0

\* eval_dict of evaluate_file after the loop over the sentences.
RawCounts(c, anno_name) ==
    [block \in BlockKeys |->
        IF block \in SpanBlocks /\ LabelOf(block) \in {0, c.key}
        THEN Dict(SpanCounts(c, Version(block)))
        ELSE IF block \in RelcBlocks /\ anno_name = "extrap"
        THEN Dict(SpanCounts(c, Version(block)))
        ELSE IF block \in AntecBlocks /\ anno_name = "extrap"
                /\ BucketOf(block) \in {0, c.key}
        THEN Dict(AntecCounts(c))
        ELSE NoBlock]

evaluate_file(c, anno_name) ==
    CHOOSE result \in
        {CalculateAll(eval_dict, anno_name) : eval_dict \in
            {RawCounts(c, anno_name)}} : TRUE

(* overall_results *)

RECURSIVE AddUpFiles(_, _)
\* eval_dict["overall"] = {}; for f in eval_dict["per_file"]: add_dict(...)
AddUpFiles(files, n) ==
    IF n = 0 THEN EmptyBlocks ELSE add_dict(AddUpFiles(files, n - 1), files[n])

overall_results_adding_up(files, anno_name) == AddUpFiles(files, Len(files))

overall_results(files, anno_name) ==
    CHOOSE result \in
        {CalculateAll(eval_dict, anno_name) : eval_dict \in
            {AddUpFiles(files, Len(files))}} : TRUE

InitEval ==
    /\ tokens = WordSentence /\ heap = <<>> /\ last = NoCall /\ IdleCodec
    /\ IdleBesideEval
    /\ evalAnno \in {"extrap", "chunks"}
    /\ per_file = <<>> /\ overall = EmptyBlocks /\ nmerged = 0

\* The evaluation loop of CLASSIG.py fills eval_dict["per_file"] and then
\* calls overall_results.
EvaluateFile(c) ==
    /\ Len(per_file) < MaxFiles /\ nmerged = 0
    /\ \E result \in {evaluate_file(c, evalAnno)} :
           per_file' = Append(per_file, result)
    /\ UNCHANGED <<evalAnno, overall, nmerged, besideEval, tokens, spanVars,
                   codecVars>>

OverallResults ==
    /\ per_file # <<>>
    /\ \E result \in {overall_results(per_file, evalAnno)} :
           overall' = result
    /\ nmerged' = Len(per_file)
    /\ UNCHANGED <<evalAnno, per_file, besideEval, tokens, spanVars,
                   codecVars>>

NextEval == (\E c \in FileCounts : EvaluateFile(c)) \/ OverallResults

SpecEval == InitEval /\ [][NextEval]_vars

(* C14 *)

RECURSIVE SumOver(_, _, _, _)
\* The sum of entry key of the block over the first n files.
SumOver(files, n, block, key) ==
    IF n = 0 THEN Zero
    ELSE QAdd(SumOver(files, n - 1, block, key), Get(files[n][block].d, key))

\* The block with every count summed over the merged files and no metric.
SummedCounts(block) ==
    [k \in MetricKeys |->
        IF k \in DerivedKeys
           \/ \A f \in 1..nmerged : per_file[f][block].d[k].t = "absent"
        THEN Absent
        ELSE Num(SumOver(per_file, nmerged, block, k).n)]

Recomputed(block) ==
    CHOOSE result \in
        {IF block \in AntecBlocks THEN calculate_metrics_antecedent(counts)
         ELSE calculate_metrics(counts, Version(block)) : counts \in
            {SummedCounts(block)}} : TRUE

\* C14: after overall_results, every derived value of every block of the
\* corpus-level dictionary (Prec, Rec, F1 of the overall, per-label and
\* MovElem/RELC blocks; Prec, Rec, F1, F1right and the head metrics of every
\* antecedent bucket) is the metric of the counts summed over the files,
\* not the sum of the files' metric values.
C14_MetricsRecomputed ==
    nmerged > 0 =>
        \A block \in BlockKeys :
            overall[block].t # "absent" =>
                \E r \in {Recomputed(block)} :
                    \A k \in DerivedKeys : overall[block].d[k] = r[k]

\* Two files have been merged and the corpus-level precision of a span
\* block and of an antecedent bucket differ from the sums of the files'.
C14_Witness ==
    /\ nmerged = 2
    /\ evalAnno = "extrap"
    /\ overall["overall/traditional"].d["Prec"] = Float(Frac(1, 2))
    /\ SumOver(per_file, 2, "overall/traditional", "Prec") = Frac(1, 1)
    /\ overall["Antec/overall"].d["F1right"] # Absent
    /\ overall["Antec/overall"].d["Prec"]
           # Float(SumOver(per_file, 2, "Antec/overall", "Prec"))

---------------------------------------------------------------------------
(* FairEval.overlap_type, imported by src/src/evaluation.py.  The function *)
(* is not in the source tree; it is written from the categories of the     *)
(* specification.  A span is <<start, end>> with start <= end.             *)

MaxIndex == 3      \* largest token index of a compared interval

NoOverlap == "False"   \* the value evaluate_antecedents tests with == False

overlap_type_by_start(span1, span2) ==
    IF span1 = span2 THEN "TP"
    ELSE IF span2[2] < span1[1] \/ span1[2] < span2[1] THEN NoOverlap
    ELSE IF span1[1] <= span2[1] THEN "BES" ELSE "BEL"

\* span1 is the gold interval, span2 the system interval.
overlap_type(span1, span2) ==
    IF span1 = span2 THEN "TP"
    ELSE IF span2[2] < span1[1] \/ span1[2] < span2[1] THEN NoOverlap
    ELSE IF span1[1] <= span2[1] /\ span2[2] <= span1[2] THEN "BES"
    ELSE IF span2[1] <= span1[1] /\ span1[2] <= span2[2] THEN "BEL"
    ELSE "BEO"

Intervals == {span \in (0..MaxIndex) \X (0..MaxIndex) : span[1] <= span[2]}

NotCompared == [gold |-> "", system |-> ""]

InitOverlap ==
    /\ tokens = WordSentence /\ heap = <<>> /\ last = NoCall /\ IdleCodec
    /\ IdleBesideOverlap
    /\ ivGold \in Intervals /\ ivSys \in Intervals
    /\ ot = NotCompared

\* overlap_type(gold, system) and overlap_type(system, gold)
OverlapType ==
    /\ ot = NotCompared
    /\ ot' = [gold |-> overlap_type(ivGold, ivSys),
              system |-> overlap_type(ivSys, ivGold)]
    /\ UNCHANGED <<ivGold, ivSys, besideOverlap, tokens, spanVars, codecVars>>

\* The next pair of intervals is compared.
NextPair ==
    /\ ot # NotCompared
    /\ \E g \in Intervals, s \in Intervals : ivGold' = g /\ ivSys' = s
    /\ ot' = NotCompared
    /\ UNCHANGED <<besideOverlap, tokens, spanVars, codecVars>>

NextOverlap == OverlapType \/ NextPair

SpecOverlap == InitOverlap /\ [][NextOverlap]_vars

Inside(a, b) == b[1] <= a[1] /\ a[2] <= b[2] /\ a # b
Disjoint(a, b) == a[2] < b[1] \/ b[2] < a[1]
Swapped(category) ==
    IF category = "BES" THEN "BEL"
    ELSE IF category = "BEL" THEN "BES" ELSE category

\* C20: overlap_type gives every pair of intervals exactly one category:
\* TP iff they are identical, BES iff the system interval lies strictly
\* inside the gold one, BEL iff it strictly contains it, the no-overlap
\* value iff they are disjoint and BEO otherwise; swapping the arguments
\* exchanges BES and BEL and leaves the others; two single-point intervals
\* overlap iff the points are equal.
C20_OverlapTotalSymmetric ==
    ot # NotCompared =>
        /\ ot.gold \in {"TP", "BES", "BEL", "BEO", NoOverlap}
        /\ ot.gold = "TP" <=> ivGold = ivSys
        /\ ot.gold = "BES" <=> Inside(ivSys, ivGold)
        /\ ot.gold = "BEL" <=> Inside(ivGold, ivSys)
        /\ ot.gold = NoOverlap <=> Disjoint(ivGold, ivSys)
        /\ ot.system = Swapped(ot.gold)
        /\ (ivGold[1] = ivGold[2] /\ ivSys[1] = ivSys[2]) =>
               (ot.gold # NoOverlap <=> ivGold[1] = ivSys[1])

\* A system interval strictly inside the gold interval has been compared
\* in both directions.
C20_Witness ==
    /\ ivGold = <<0, 2>> /\ ivSys = <<1, 1>>
    /\ ot = [gold |-> "BES", system |-> "BEL"]

---------------------------------------------------------------------------
(* evaluate_antecedents (src/src/evaluation.py)                            *)
(*                                                                         *)
(* An antecedent is the record of what the function reads of it: start and *)
(* end are its punctuation-ignoring indices, m the punctuation-ignoring    *)
(* start index of its moving element, dist its distance and heads the IDs  *)
(* of its head tokens.  g_antecs and e_antecs hold positions in the gold   *)
(* and system lists.  label is the label of its moving element ("None"    *)
(* when get_MovElem() is None) and verbs the head tokens whose XPOS starts  *)
(* with V.                                                                  *)

MaxAntecs == 2     \* antecedents of a sentence

CountKeys == {"Correct", "BES", "BEL", "BEO", "BE", "FP", "IL", "FN",
              "BEright",
              "TP_Head_Correct", "FP_Head_Correct", "FN_Head_Correct",
              "TP_Head_Right", "FP_Head_Right", "FN_Head_Right",
              "TP_Head_All", "FP_Head_All", "FN_Head_All"}

ZeroCounts == [k \in CountKeys |-> 0]

\* An antecedent over the tokens 0..2 whose moving element starts at m; no
\* token between the two is punctuation.
AntecWith(span, m, heads, verbs, label) ==
    [start |-> span[1], end |-> span[2], m |-> m, dist |-> m - span[2] - 1,
     heads |-> heads, verbs |-> verbs, label |-> label]

\* The antecedent of a relative clause whose head is its last token, a noun.
Antec(span, m) == AntecWith(span, m, {span[2] + 1}, {}, "RELC")

AntecSpans == {<<0, 0>>, <<0, 1>>, <<1, 2>>}
MovStarts  == {3, 4}

\* Antecedents with the same right boundary and different heads, without
\* head, with a verb as only head, of a moving element that is no relative
\* clause, and without moving element.
OtherAntecs ==
    {AntecWith(<<1, 1>>, 3, {2}, {}, "RELC"),
     AntecWith(<<0, 1>>, 3, {1, 2}, {}, "RELC"),
     AntecWith(<<0, 0>>, 3, {}, {}, "RELC"),
     AntecWith(<<1, 2>>, 3, {3}, {3}, "RELC"),
     AntecWith(<<0, 0>>, 3, {1}, {}, "NP"),
     AntecWith(<<0, 0>>, 3, {1}, {}, "None")}

Antecs ==
    {Antec(span, m) : span \in AntecSpans, m \in MovStarts} \cup OtherAntecs

RECURSIVE SeqsUpTo(_, _)
\* The sequences over S of length 1..n
SeqsUpTo(S, n) ==
    IF n = 0 THEN {}
    ELSE {<<x>> : x \in S}
             \cup {Append(seq, x) : seq \in SeqsUpTo(S, n - 1), x \in S}

RECURSIVE UpTo(_)
UpTo(n) == IF n = 0 THEN <<>> ELSE Append(UpTo(n - 1), n)
Positions(seq) == UpTo(Len(seq))

\* The counts of a bucket as the dictionary calculate_metrics_antecedent gets
AsEvalDict(counts) ==
    [k \in MetricKeys |-> IF k \in CountKeys THEN Num(counts[k]) ELSE Absent]

Range(seq) == {seq[i] : i \in 1..Len(seq)}

\* The two sentences have the same tokens: a head token that is a verb for
\* one antecedent is a verb for every antecedent.
SameTokens(gold, sys) ==
    \A a \in Range(gold) \cup Range(sys), b \in Range(gold) \cup Range(sys) :
        a.heads \cap b.verbs \subseteq a.verbs

\* Statements 1-3 of the function: the distances and the empty eval_dict.
InitAntec ==
    /\ tokens = WordSentence /\ heap = <<>> /\ last = NoCall /\ IdleCodec
    /\ IdleBesideAntec
    /\ aGold \in SeqsUpTo(Antecs, MaxAntecs)
    /\ aSys \in SeqsUpTo(Antecs, MaxAntecs) \cup {<<>>}
    /\ SameTokens(aGold, aSys)
    /\ g_antecs = <<>> /\ e_antecs = <<>>
    /\ antec_dict = [buckets |-> <<>>, overall |-> ZeroCounts]
    /\ matches = <<>>
    /\ apc = "collect"

\* eval_dict[d][key] += n
Inc(buckets, d, key, n) ==
    [x \in DOMAIN buckets |->
        IF x = d
        THEN [k \in CountKeys |->
                 IF k = key THEN buckets[x][k] + n ELSE buckets[x][k]]
        ELSE buckets[x]]

\* The three head counts of a group, for gold antecedent ga and system
\* antecedent ea.
CountHeads(buckets, ga, ea, group) ==
    Inc(Inc(Inc(buckets, ga.dist, HeadKeys(group).TP,
                Cardinality(ga.heads \cap ea.heads)),
            ga.dist, HeadKeys(group).FP, Cardinality(ea.heads \ ga.heads)),
        ga.dist, HeadKeys(group).FN, Cardinality(ga.heads \ ea.heads))

\* The condition of the list comprehension that builds ea_matches in the
\* pass for exact matches ("TP"), boundary errors ("BE") and incorrect
\* locations ("IL").
Matches_any_MovElem(pass, ga, ea) ==
    \/ pass = "TP" /\ overlap_type(<<ga.start, ga.end>>,
                                   <<ea.start, ea.end>>) = "TP"
    \/ pass = "BE" /\ overlap_type(<<ga.start, ga.end>>,
                          <<ea.start, ea.end>>) \in {"BES", "BEL", "BEO"}
    \/ pass = "IL" /\ overlap_type(<<ga.start, ga.end>>,
                                   <<ea.start, ea.end>>) = NoOverlap

Matches(pass, ga, ea) ==
    /\ \/ pass = "TP" /\ overlap_type(<<ga.start, ga.end>>,
                                      <<ea.start, ea.end>>) = "TP"
       \/ pass = "BE" /\ overlap_type(<<ga.start, ga.end>>,
                             <<ea.start, ea.end>>) \in {"BES", "BEL", "BEO"}
       \/ pass = "IL" /\ overlap_type(<<ga.start, ga.end>>,
                                      <<ea.start, ea.end>>) = NoOverlap
    /\ overlap_type(<<ga.m, ga.m>>, <<ea.m, ea.m>>) # NoOverlap

\* A variant that credits the heads of a right-aligned boundary error to the
\* tier of exact matches.
Counted_crediting_exact(pass, buckets, ga, ea) ==
    IF pass = "TP"
    THEN CountHeads(CountHeads(CountHeads(
             Inc(buckets, ga.dist, "Correct", 1),
             ga, ea, "Correct"), ga, ea, "Right"), ga, ea, "All")
    ELSE IF pass = "BE"
    THEN CountHeads(
             IF ga.end = ea.end
             THEN CountHeads(
                      Inc(Inc(buckets, ga.dist,
                              overlap_type(<<ga.start, ga.end>>,
                                           <<ea.start, ea.end>>), 1),
                          ga.dist, "BEright", 1),
                      ga, ea, "Correct")
             ELSE Inc(buckets, ga.dist,
                      overlap_type(<<ga.start, ga.end>>,
                                   <<ea.start, ea.end>>), 1),
             ga, ea, "All")
    ELSE CountHeads(Inc(buckets, ga.dist, "IL", 1), ga, ea, "All")

\* The body of `if ea_matches:` of a pass, for the first match ea.
Counted(pass, buckets, ga, ea) ==
    IF pass = "TP"
    THEN CountHeads(CountHeads(CountHeads(
             Inc(buckets, ga.dist, "Correct", 1),
             ga, ea, "Correct"), ga, ea, "Right"), ga, ea, "All")
    ELSE IF pass = "BE"
    THEN CountHeads(
             IF ga.end = ea.end
             THEN CountHeads(
                      Inc(Inc(buckets, ga.dist,
                              overlap_type(<<ga.start, ga.end>>,
                                           <<ea.start, ea.end>>), 1),
                          ga.dist, "BEright", 1),
                      ga, ea, "Right")
             ELSE Inc(buckets, ga.dist,
                      overlap_type(<<ga.start, ga.end>>,
                                   <<ea.start, ea.end>>), 1),
             ga, ea, "All")
    ELSE CountHeads(Inc(buckets, ga.dist, "IL", 1), ga, ea, "All")

RemoveFirst(seq, x) == RemoveAt(seq, IndexOf(seq, x))

\* A variant that leaves the matched system antecedent in e_antecs.
MatchOne_keeping(pass, g, st) ==
    IF \E i \in 1..Len(st.es) : Matches(pass, aGold[g], aSys[st.es[i]])
    THEN CHOOSE result \in
             {[es |-> st.es,
               buckets |-> Counted(pass, st.buckets, aGold[g], aSys[e]),
               matched |-> Append(st.matched, g),
               log |-> Append(st.log,
                         [gold |-> g, system |-> e, pass |-> pass,
                          category |-> overlap_type(
                              <<aGold[g].start, aGold[g].end>>,
                              <<aSys[e].start, aSys[e].end>>)])] :
              e \in {st.es[CHOOSE i \in 1..Len(st.es) :
                        /\ Matches(pass, aGold[g], aSys[st.es[i]])
                        /\ \A j \in 1..(i - 1) :
                             ~Matches(pass, aGold[g], aSys[st.es[j]])]}} :
             TRUE
    ELSE st

\* One turn of `for ga in g_antecs:` of a pass.  st holds e_antecs, the
\* buckets of eval_dict, the list matched and the matches made so far.
MatchOne(pass, g, st) ==
    IF \E i \in 1..Len(st.es) : Matches(pass, aGold[g], aSys[st.es[i]])
    THEN \* ea_matches[0]
         CHOOSE result \in
             {[es |-> RemoveFirst(st.es, e),
               buckets |-> Counted(pass, st.buckets, aGold[g], aSys[e]),
               matched |-> Append(st.matched, g),
               log |-> Append(st.log,
                         [gold |-> g, system |-> e, pass |-> pass,
                          category |-> overlap_type(
                              <<aGold[g].start, aGold[g].end>>,
                              <<aSys[e].start, aSys[e].end>>)])] :
              e \in {st.es[CHOOSE i \in 1..Len(st.es) :
                        /\ Matches(pass, aGold[g], aSys[st.es[i]])
                        /\ \A j \in 1..(i - 1) :
                             ~Matches(pass, aGold[g], aSys[st.es[j]])]}} :
             TRUE
    ELSE st

RECURSIVE MatchAll(_, _, _, _)
MatchAll(pass, gs, i, st) ==
    IF i > Len(gs) THEN st
    ELSE CHOOSE result \in
             {MatchAll(pass, gs, i + 1, next) :
                 next \in {MatchOne(pass, gs[i], st)}} : TRUE

RECURSIVE RemoveAll(_, _)
\* for m in matched: g_antecs.remove(m)
RemoveAll(seq, matched) ==
    IF matched = <<>> THEN seq
    ELSE RemoveAll(RemoveFirst(seq, matched[1]), Tail(matched))

\* A whole pass over g_antecs.
MatchPass(pass) ==
    MatchAll(pass, g_antecs, 1,
             [es |-> e_antecs, buckets |-> antec_dict.buckets,
              matched |-> <<>>, log |-> matches])

\* for d in distances: eval_dict[d]["BE"] += BES + BEL + BEO
SumBE(buckets) ==
    [d \in DOMAIN buckets |->
        [k \in CountKeys |->
            IF k = "BE"
            THEN buckets[d].BE + buckets[d].BES + buckets[d].BEL
                     + buckets[d].BEO
            ELSE buckets[d][k]]]

RECURSIVE CountRest(_, _, _, _, _)
\* The remaining gold antecedents are FN, the remaining system ones FP.
CountRest(buckets, antecs, rest, key, headKey) ==
    IF rest = <<>> THEN buckets
    ELSE CountRest(
             Inc(Inc(buckets, antecs[rest[1]].dist, headKey,
                     Cardinality(antecs[rest[1]].heads)),
                 antecs[rest[1]].dist, key, 1),
             antecs, Tail(rest), key, headKey)

RECURSIVE SumBuckets(_, _, _)
\* eval_dict["overall"][key] after add_dict has gone over the distances
SumBuckets(buckets, ds, key) ==
    IF ds = {} THEN 0
    ELSE SumBuckets(buckets, ds \ {CHOOSE d \in ds : TRUE}, key)
             + buckets[CHOOSE d \in ds : TRUE][key]

\* The conditions of the two list comprehensions that collect the
\* antecedents; all() of no head token is True.
GoldCollected(a) == a.label = "RELC" /\ ~(a.heads \subseteq a.verbs)
SysCollected(e)  == e.label = "RELC"

Collect ==
    /\ apc = "collect"
    /\ \E gs \in {SelectSeq(Positions(aGold),
                            LAMBDA i : GoldCollected(aGold[i]))} :
       \E es \in {SelectSeq(Positions(aSys),
                            LAMBDA i : SysCollected(aSys[i]))} :
           /\ g_antecs' = gs /\ e_antecs' = es
           /\ antec_dict' =
                  [buckets |-> [d \in {aGold[gs[i]].dist : i \in 1..Len(gs)}
                                      \cup {aSys[es[i]].dist : i \in 1..Len(es)}
                                  |-> ZeroCounts],
                   overall |-> ZeroCounts]
    /\ apc' = "TP"
    /\ UNCHANGED <<aGold, aSys, matches, besideAntec, tokens, spanVars,
                   codecVars>>

Match(pass, next) ==
    /\ apc = pass
    /\ \E st \in {MatchPass(pass)} :
           /\ e_antecs' = st.es
           /\ g_antecs' = RemoveAll(g_antecs, st.matched)
           /\ antec_dict' = [antec_dict EXCEPT !.buckets =
                  IF pass = "BE" THEN SumBE(st.buckets) ELSE st.buckets]
           /\ matches' = st.log
    /\ apc' = next
    /\ UNCHANGED <<aGold, aSys, besideAntec, tokens, spanVars,
                   codecVars>>

MatchTPs == Match("TP", "BE")
MatchBEs == Match("BE", "IL")
MatchILs == Match("IL", "rest")

Return ==
    /\ apc = "rest"
    /\ \E buckets \in {CountRest(CountRest(antec_dict.buckets, aGold,
                                           g_antecs, "FN", "FN_Head_All"),
                                 aSys, e_antecs, "FP", "FP_Head_All")} :
           antec_dict' =
               [buckets |-> buckets,
                overall |-> [k \in CountKeys |->
                                SumBuckets(buckets, DOMAIN buckets, k)]]
    /\ apc' = "done"
    /\ UNCHANGED <<aGold, aSys, g_antecs, e_antecs, matches, besideAntec,
                   tokens, spanVars, codecVars>>

NextAntec == Collect \/ MatchTPs \/ MatchBEs \/ MatchILs \/ Return

SpecAntec == InitAntec /\ [][NextAntec]_vars

(* C15 *)

GoldSpan(g) == <<aGold[g].start, aGold[g].end>>
SysSpan(e)  == <<aSys[e].start, aSys[e].end>>

\* How many matches the passes have made under a category.
Matched(category) ==
    Cardinality({i \in 1..Len(matches) :
                    /\ matches[i].pass \in {"TP", "BE"}
                    /\ matches[i].category = category})

Total(key) ==
    SumBuckets(antec_dict.buckets, DOMAIN antec_dict.buckets, key)

\* C15: a system antecedent is counted as Correct, BES, BEL or BEO for a
\* gold antecedent only if their intervals overlap with that category and
\* their moving elements start at the same index, and no pass matches a
\* system antecedent whose moving element starts elsewhere.
C15_MatchNeedsSameMovElem ==
    /\ \A i \in 1..Len(matches) :
           /\ aGold[matches[i].gold].m = aSys[matches[i].system].m
           /\ matches[i].category
                  = overlap_type(GoldSpan(matches[i].gold),
                                 SysSpan(matches[i].system))
           /\ matches[i].pass = "TP" => matches[i].category = "TP"
           /\ matches[i].pass = "BE"
                  => matches[i].category \in {"BES", "BEL", "BEO"}
    /\ apc \in {"IL", "rest", "done"} =>
           /\ Total("Correct") = Matched("TP")
           /\ Total("BES") = Matched("BES")
           /\ Total("BEL") = Matched("BEL")
           /\ Total("BEO") = Matched("BEO")

\* A gold antecedent has an exact system counterpart attached to a moving
\* element that starts elsewhere, and ends up as a false negative.
C15_Witness ==
    /\ apc = "done"
    /\ Len(aGold) = 1 /\ Len(aSys) = 1
    /\ GoldSpan(1) = SysSpan(1) /\ aGold[1].m # aSys[1].m
    /\ matches = <<>>
    /\ Total("Correct") = 0 /\ Total("FN") = 1 /\ Total("FP") = 1

(* C16 *)

\* C16: a gold antecedent that the exact and boundary-error passes left
\* unmatched and for which an unconsumed system antecedent with a disjoint
\* interval and the same moving element start exists is counted as IL, not
\* as Correct or FN, and its system antecedent not as FP; an IL adds half a
\* false positive and half a false negative, and no true positive, to the
\* counts Prec and Rec are computed from.
C16_IncorrectLocation ==
    /\ apc \in {"rest", "done"} =>
           /\ \A i \in 1..Len(g_antecs), j \in 1..Len(e_antecs) :
                  ~(/\ Disjoint(GoldSpan(g_antecs[i]), SysSpan(e_antecs[j]))
                    /\ aGold[g_antecs[i]].m = aSys[e_antecs[j]].m)
           /\ Total("IL") = Cardinality({i \in 1..Len(matches) :
                                            matches[i].pass = "IL"})
           /\ \A i \in 1..Len(matches) :
                  /\ \A j \in 1..Len(g_antecs) : g_antecs[j] # matches[i].gold
                  /\ \A j \in 1..Len(e_antecs) :
                         e_antecs[j] # matches[i].system
    /\ apc = "done" =>
           /\ Total("FN") = Len(g_antecs) /\ Total("FP") = Len(e_antecs)
           /\ Total("Correct") = Matched("TP")
           /\ \E c \in {fair_eval_dict(AsEvalDict(antec_dict.overall))} :
                  /\ c.TP = Frac(antec_dict.overall.Correct, 1)
                  /\ c.FP = Frac(2 * antec_dict.overall.FP
                                     + antec_dict.overall.IL, 2)
                  /\ c.FN = Frac(2 * antec_dict.overall.FN
                                     + antec_dict.overall.IL, 2)
                  /\ \E r \in {calculate_metrics_antecedent(
                                   AsEvalDict(antec_dict.overall))} :
                         /\ r["Prec"] = Float(precision(c, "fair"))
                         /\ r["Rec"] = Float(recall(c, "fair"))

\* The scenario of the specification: the system antecedent lies apart
\* from the gold one, their moving elements start at the same index, and
\* the pair is counted as one IL.
C16_Witness ==
    /\ apc = "done"
    /\ Len(aGold) = 1 /\ Len(aSys) = 1
    /\ GoldSpan(1) = <<0, 0>> /\ SysSpan(1) = <<1, 2>>
    /\ aGold[1].m = aSys[1].m
    /\ antec_dict.overall.IL = 1 /\ antec_dict.overall.Correct = 0
    /\ antec_dict.overall.FN = 0 /\ antec_dict.overall.FP = 0
    /\ fair_eval_dict(AsEvalDict(antec_dict.overall)).FP = Frac(1, 2)
    /\ fair_eval_dict(AsEvalDict(antec_dict.overall)).FN = Frac(1, 2)

---------------------------------------------------------------------------
(* Antecedent.get_distance and the operations that change the indices it   *)
(* reads (src/src/annotations.py, src/src/variant_corpus.py)               *)
(*                                                                         *)
(* In this specification `tokens` maps each token object to its ID and     *)
(* XPOS, and `order` is sentence.tokens: the token objects in sentence     *)
(* order.  The heap holds one antecedent and the moving element it is      *)
(* linked with.                                                            *)

NSent == 4         \* tokens of the sentence

Tags == {"NN", "$,"}

RECURSIVE FromTo(_, _)
FromTo(a, b) == IF a > b THEN <<>> ELSE <<a>> \o FromTo(a + 1, b)

RECURSIVE reversed(_)
reversed(s) == IF s = <<>> THEN <<>> ELSE Append(reversed(Tail(s)), s[1])

\* An antecedent over the tokens a1..a2 and an extraposed relative clause
\* over m1..m2, linked with each other, as the decoder leaves them.
Linked(a1, a2, m1, m2) ==
    << [NewObj("Antecedent", "Antec") EXCEPT
            !.elems = FromTo(a1, a2), !.start = a1 - 1, !.end = a2 - 1,
            !.link = 2],
       [NewObj("MovElem", "RELC") EXCEPT
            !.elems = FromTo(m1, m2), !.start = m1 - 1, !.end = m2 - 1,
            !.pos = "extrap", !.link = 1] >>

InitDistance ==
    /\ \E xpos \in [1..NSent -> Tags] :
           tokens = [k \in 1..NSent |-> [ID |-> str(k), XPOS |-> xpos[k]]]
    /\ order = FromTo(1, NSent)
    /\ \E a1 \in 1..NSent, a2 \in 1..NSent, m1 \in 1..NSent, m2 \in 1..NSent :
           /\ a1 <= a2 /\ a2 < m1 /\ m1 <= m2
           /\ heap = Linked(a1, a2, m1, m2)
    /\ distance = Unset
    /\ last = NoCall
    /\ IdleCodec /\ IdleBesideDist

\* The result of a get_distance call: the attribute afterwards and what
\* the caller sees.
Distance(d, ret) == [distance |-> d, ret |-> ret]

\* [tok for tok in sentence.tokens if int(tok.ID)-1 > a_end
\*      and int(tok.ID)-1 < m_start and not tok.XPOS.startswith("$")]
between(ord, a_end, m_start) ==
    SelectSeq(ord, LAMBDA t : /\ IndexOfToken(t) > a_end
                              /\ IndexOfToken(t) < m_start
                              /\ ~IsPunct(t))

\* Antecedent.get_distance(sentence).  Comparing an int with None raises
\* TypeError: with the antecedent's end at the first token, with the moving
\* element's start at the first token that lies behind the antecedent.
get_distance(h, ord, d, a) ==
    IF h[a].link = 0 THEN Distance(d, "None")
    ELSE IF d # Unset /\ d # 0 THEN Distance(d, str(d))
    ELSE LET a_end   == get_end_index(h, a, TRUE)
             m_start == get_start_index(h, h[a].link, TRUE)
         IN  IF ord # <<>> /\ a_end = None THEN Distance(d, "TypeError")
             ELSE IF /\ m_start = None
                     /\ \E i \in 1..Len(ord) : IndexOfToken(ord[i]) > a_end
             THEN Distance(d, "TypeError")
             ELSE Distance(Len(between(ord, a_end, m_start)),
                           str(Len(between(ord, a_end, m_start))))

GetDistance(a) ==
    /\ heap[a].cls = "Antecedent"
    /\ \E r \in {get_distance(heap, order, distance, a)} :
         /\ distance' = r.distance
         /\ last' = Call("get_distance", a, 0, Len(heap[a].elems), r.ret)
    /\ UNCHANGED <<tokens, heap, order, codecVars, besideDist>>

\* for tok in tokens: del sent.tokens[sent.tokens.index(tok)]
\*                    sent.tokens.insert(antec_end, tok)
RECURSIVE MoveTokens(_, _, _)
MoveTokens(ord, toks, antec_end) ==
    IF toks = <<>> THEN ord
    ELSE MoveTokens(InsertAt(RemoveAt(ord, IndexOf(ord, toks[1])),
                             antec_end, toks[1]),
                    Tail(toks), antec_end)

\* The tokens move_element moves: the moving element's tokens from last to
\* first, then the token before it if that is punctuation or a conjunction.
Moving(h, ord, m, start) ==
    IF IsPunct(ord[start]) \/ tokens[ord[start]].XPOS = "KON"
    THEN Append(reversed(get_tokens(h, m)), ord[start])
    ELSE reversed(get_tokens(h, m))

\* reindex_sentence: for i, tok in enumerate(sent.tokens): tok.ID = str(i+1)
reindex_tokens(ord) ==
    [t \in 1..Len(ord) |->
        [ID |-> str(IndexOf(ord, t)), XPOS |-> tokens[t].XPOS]]

\* move_element(movElem) of create_variant_corpus for a moving element with
\* a label to move and no embedded moving element.  Every pass of the loop
\* ends with reindex_sentence, which overwrites what the pass before wrote:
\* it re-indexes the tokens, then calls update_start_index and
\* update_end_index of every moving element, then of every antecedent.
MoveElement(m) ==
    /\ heap[m].cls = "MovElem"
    /\ \E a \in {heap[m].link} :
         IF heap[m].pos # "extrap" \/ a = 0
         THEN UNCHANGED <<tokens, heap, order>>
         ELSE \E antec_end \in {get_end_index(heap, a, FALSE) + 1},
                 start \in {get_start_index(heap, m, FALSE)} :
                IF between(order, antec_end - 1, start) = <<>>
                THEN UNCHANGED <<tokens, heap, order>>
                ELSE \E ord \in {MoveTokens(order,
                                            Moving(heap, order, m, start),
                                            antec_end)},
                        h \in {[heap EXCEPT ![m].pos = "insitu"]} :
                       /\ order' = ord
                       /\ tokens' = reindex_tokens(ord)
                       /\ \E h1 \in {update_start_index(h, m)'} :
                          \E h2 \in {update_end_index(h1, m)'} :
                          \E h3 \in {update_start_index(h2, a)'} :
                             heap' = update_end_index(h3, a)'
    /\ last' = Call("move_element", m, 0, Len(heap[m].elems), "None")
    /\ UNCHANGED <<distance, codecVars, besideDist>>

\* The token behind the antecedent's last one, if it is outside the moving
\* element; 0 if there is none.
Following(a) ==
    LET i == IndexOf(order, Last(get_tokens(heap, a)))
    IN  IF i < Len(order) /\ ~Contains(get_tokens(heap, heap[a].link), order[i + 1])
        THEN order[i + 1] ELSE 0

NextDistance ==
    \/ \E a \in Ids : GetDistance(a)
    \/ \E m \in Ids : MoveElement(m)
    \/ \E a \in Ids : /\ heap[a].cls = "Antecedent"
                      /\ Following(a) # 0
                      /\ AppendElement(a, Following(a))
    \/ \E a \in Ids : /\ heap[a].cls = "Antecedent"
                      /\ Len(heap[a].elems) > 1
                      /\ RemoveElement(a, Last(heap[a].elems))

SpecDistance == InitDistance /\ [][NextDistance]_vars

(* C17 *)

\* The words that lie strictly between the antecedent's end and its moving
\* element's start as the indices are now.
WordsBetween(a) ==
    between(order, get_end_index(heap, a, TRUE),
            get_start_index(heap, heap[a].link, TRUE))

\* C17: whatever get_distance calls, token moves with re-indexing and
\* element insertions and removals came before, a get_distance call on an
\* antecedent whose end and whose moving element's start exist returns the
\* number of non-punctuation tokens that lie strictly between them now.
C17_DistanceNeverStale ==
    (/\ last.op = "get_distance"
     /\ get_end_index(heap, last.self, TRUE) # None
     /\ get_start_index(heap, heap[last.self].link, TRUE) # None)
        => last.ret = str(Len(WordsBetween(last.self)))

---------------------------------------------------------------------------
(* evaluate_MovElems (src/src/evaluation.py)                               *)
(*                                                                         *)
(* A label string is the list of pieces it splits into at "-":             *)
(* "RELC-extrap" is <<"RELC", "extrap">>.  A span tuple                    *)
(* [label, start, end, {token indices}] is a record.  The heap holds the   *)
(* moving elements of the gold and of the system sentence, which have the  *)
(* same tokens.                                                            *)

\* LABELS["extrap"], and what evaluate_file narrows it to for "Tiger"
ExtrapLabels ==
    << <<"NP", "insitu">>, <<"NP", "extrap">>, <<"PP", "insitu">>,
       <<"PP", "extrap">>, <<"AP", "insitu">>, <<"AP", "extrap">>,
       <<"ADVP", "insitu">>, <<"ADVP", "extrap">>,
       <<"RELC", "insitu">>, <<"RELC", "ambig">>, <<"RELC", "extrap">> >>

RelcLabels ==
    << <<"RELC", "insitu">>, <<"RELC", "ambig">>, <<"RELC", "extrap">> >>

VerbTags == {"VVFIN", "VAFIN", "VMFIN"}

\* h.XPOS.startswith("V")
IsVerb(t) == tokens[t].XPOS \in VerbTags

\* s.get_label() in [l.split("-")[0] for l in labels]
Relevant(lab, labs) == \E i \in 1..Len(labs) : labs[i][1] = lab

\* s.get_antecedent() == None or all(h.XPOS.startswith("V")
\*                                   for h in s.get_antecedent().get_headToks())
NonAttributive(h, s) ==
    \/ h[s].link = 0
    \/ \A i \in 1..Len(h[h[s].link].heads) : IsVerb(h[h[s].link].heads[i])

\* {int(t.ID)-1 for t in s.get_tokens() if t.XPOS[0] != "$"}
WordIndices(h, s) ==
    {IndexOfToken(t) : t \in {u \in 1..Len(tokens) :
                                 Contains(get_tokens(h, s), u) /\ ~IsPunct(u)}}

SpanTuple(label, start, end, toks) ==
    [label |-> label, start |-> start, end |-> end, toks |-> toks]

\* The tuple of the moving element s itself, if it gets one.
OwnSpans(h, s, labs, exclude_non_attributive_relcs, exclude_unknown_position) ==
    IF ~Relevant(h[s].lab, labs) THEN <<>>
    ELSE IF exclude_unknown_position /\ h[s].pos = "unknown" THEN <<>>
    ELSE IF /\ exclude_non_attributive_relcs
            /\ h[s].lab = "RELC"
            /\ NonAttributive(h, s)
    THEN <<>>
    ELSE IF \/ get_start_index(h, s, TRUE) = None
            \/ get_end_index(h, s, TRUE) = None
    THEN <<>>
    ELSE << SpanTuple(<<h[s].lab>> \o <<h[s].pos>>,
                      get_start_index(h, s, TRUE), get_end_index(h, s, TRUE),
                      WordIndices(h, s)) >>

RECURSIVE get_MovElem_spans(_, _, _, _, _)
get_MovElem_spans(h, e, labs, exclude_non_attributive_relcs, exclude_unknown_position) ==
    IF IsTok(e) \/ h[SpanOf(e)].cls # "MovElem" THEN <<>>
    ELSE LET s == SpanOf(e)
             Rec[i \in 0..Len(h[s].elems)] ==
                 IF i = 0
                 THEN OwnSpans(h, s, labs, exclude_non_attributive_relcs,
                               exclude_unknown_position)
                 ELSE Rec[i - 1]
                      \o get_MovElem_spans(h, h[s].elems[i], labs,
                                           exclude_non_attributive_relcs,
                                           exclude_unknown_position)
         IN  Rec[Len(h[s].elems)]

\* for s in sentence.MovElems: spans.extend(get_MovElem_spans(s, ...))
RECURSIVE SpansOf(_, _, _, _, _)
SpansOf(h, movElems, labs, exclude_non_attributive_relcs, exclude_unknown_position) ==
    IF movElems = <<>> THEN <<>>
    ELSE get_MovElem_spans(h, Ref(movElems[1]), labs,
                           exclude_non_attributive_relcs,
                           exclude_unknown_position)
         \o SpansOf(h, Tail(movElems), labs, exclude_non_attributive_relcs,
                    exclude_unknown_position)

\* A variant that keeps the position in the label.
relcs_with_position(span_tuples) ==
    SelectSeq(span_tuples, LAMBDA g : g.label[1] = "RELC")

\* [[g[0].split("-")[0]]+g[1:] for g in spans if g[0].startswith("RELC")]
\* No label of LABELS other than RELC starts with "RELC".
RECURSIVE relcs(_)
relcs(span_tuples) ==
    IF span_tuples = <<>> THEN <<>>
    ELSE IF span_tuples[1].label[1] = "RELC"
    THEN <<[span_tuples[1] EXCEPT !.label = <<@[1]>>]>>
         \o relcs(Tail(span_tuples))
    ELSE relcs(Tail(span_tuples))

\* The sentences of the evaluation: words only, verbs only, and one with
\* punctuation.
EvalSentences ==
    {WordSentence, PunctSentence, SentenceWith([k \in 1..NTok |-> "VVFIN"])}

MovLabels     == {"NP", "RELC"}
GoldPositions == {"insitu", "extrap", "unknown"}
SysPositions  == {"insitu", "extrap"}

\* Head tokens of the gold antecedent: none, or one token.
HeadLists == {<<>>} \cup {<<t>> : t \in 1..NTok}

TokenRanges == {FromTo(a, b) : a \in 1..NTok, b \in 1..NTok} \ {<<>>}

MovObj(label, position, elements, antec) ==
    [NewObj("MovElem", label) EXCEPT
        !.elems = elements, !.pos = position, !.link = antec,
        !.start = IF IsTok(elements[1]) THEN elements[1] - 1 ELSE NTok - 1,
        !.end = IF IsTok(Last(elements)) THEN Last(elements) - 1 ELSE NTok - 1]

AntecObj(headToks, m) ==
    [NewObj("Antecedent", "Antec") EXCEPT
        !.elems = <<1>>, !.start = 0, !.end = 0, !.heads = headToks,
        !.link = m]

\* The gold sentence has one moving element, with or without an antecedent
\* and with or without a relative clause embedded at its end that has no
\* antecedent; the system sentence has one moving element.
InitMovElems ==
    /\ tokens \in EvalSentences
    /\ \E lab \in MovLabels, position \in GoldPositions, toks \in TokenRanges,
          hasAntec \in BOOLEAN, headToks \in HeadLists, embedded \in BOOLEAN,
          syslab \in MovLabels, sysposition \in SysPositions,
          systoks \in TokenRanges :
         /\ embedded => Last(toks) = NTok - 1
         /\ heap = << MovObj(lab, position,
                          IF embedded THEN Append(toks, Ref(4)) ELSE toks,
                          IF hasAntec THEN 2 ELSE 0),
                   AntecObj(headToks, IF hasAntec THEN 1 ELSE 0),
                   MovObj(syslab, sysposition, systoks, 0),
                   [MovObj("RELC", "extrap", <<NTok>>, 0) EXCEPT
                       !.parent = IF embedded THEN 1 ELSE 0] >>
    /\ goldMovElems = <<1>>
    /\ evalMovElems = <<3>>
    /\ labels \in {ExtrapLabels, RelcLabels}
    /\ all_goldspans = <<>> /\ movElem_goldspans = <<>> /\ evalspans = <<>>
    /\ gold_relcs = <<>> /\ eval_relcs = <<>>
    /\ last = NoCall
    /\ IdleCodec /\ IdleBesideMov

\* evaluate_MovElems(goldsent, evalsent, labels) up to the arguments of the
\* two compare_spans calls, which get deep copies of the lists.
EvaluateMovElems ==
    /\ last = NoCall
    /\ \E all \in {SpansOf(heap, goldMovElems, labels, FALSE, FALSE)},
          sys \in {SpansOf(heap, evalMovElems, labels, FALSE, FALSE)} :
         /\ all_goldspans' = all
         /\ movElem_goldspans' = SpansOf(heap, goldMovElems, labels, TRUE, TRUE)
         /\ evalspans' = sys
         /\ gold_relcs' = relcs(all)
         /\ eval_relcs' = relcs(sys)
    /\ last' = Call("evaluate_MovElems", 0, 0, 0, "dict")
    /\ UNCHANGED <<tokens, heap, goldMovElems, evalMovElems, labels,
                   codecVars, besideMov>>

NextMovElems == EvaluateMovElems

SpecMovElems == InitMovElems /\ [][NextMovElems]_vars

(* C18 *)

Evaluated == last.op = "evaluate_MovElems"

\* The moving elements of a sentence, embedded ones included.
RECURSIVE Within(_)
Within(movElems) ==
    IF movElems = <<>> THEN {}
    ELSE {movElems[1]}
         \cup Within(SelectSeq([i \in 1..Len(heap[movElems[1]].elems) |->
                                    SpanOf(heap[movElems[1]].elems[i])],
                               LAMBDA x : x > 0))
         \cup Within(Tail(movElems))

HasWords(s) == NoPunct(get_tokens(heap, s)) # <<>>

\* The tuple t was made from the moving element s.
Of(t, s) ==
    /\ HasWords(s)
    /\ t.label[1] = heap[s].lab
    /\ t.start = IndexOfToken(NoPunct(get_tokens(heap, s))[1])
    /\ t.end = IndexOfToken(Last(NoPunct(get_tokens(heap, s))))
    /\ t.toks = WordIndices(heap, s)

Tuples(seq) == {seq[i] : i \in 1..Len(seq)}

\* C18: every tuple given to the main comparison is labelled with the label
\* and the position of the moving element it was made from, so that tuples
\* of equal boundaries and label but different positions differ in their
\* labels; every tuple given to the relative-clause comparison is labelled
\* RELC alone; and that comparison gets a tuple for every gold relative
\* clause that has a word, also for those the main comparison leaves out.
C18_PositionHandling ==
    Evaluated =>
        /\ \A t \in Tuples(movElem_goldspans) :
               \E s \in Within(goldMovElems) :
                   Of(t, s) /\ t.label = <<heap[s].lab, heap[s].pos>>
        /\ \A t \in Tuples(evalspans) :
               \E s \in Within(evalMovElems) :
                   Of(t, s) /\ t.label = <<heap[s].lab, heap[s].pos>>
        /\ \A g \in Within(goldMovElems), e \in Within(evalMovElems) :
               \A t \in Tuples(movElem_goldspans), u \in Tuples(evalspans) :
                   (Of(t, g) /\ Of(u, e) /\ t.label[2] = heap[g].pos
                    /\ u.label[2] = heap[e].pos /\ heap[g].pos # heap[e].pos)
                       => t.label # u.label
        /\ \A t \in Tuples(gold_relcs) \cup Tuples(eval_relcs) :
               t.label = <<"RELC">>
        /\ \A s \in Within(goldMovElems) :
               (heap[s].lab = "RELC" /\ HasWords(s) /\ Relevant("RELC", labels))
                   => \E t \in Tuples(gold_relcs) : Of(t, s)
        /\ Len(gold_relcs)
               = Cardinality({i \in 1..Len(all_goldspans) :
                                 all_goldspans[i].label[1] = "RELC"})

\* An extraposed gold relative clause with a nominal antecedent, a second
\* one without antecedent embedded in it, and an in-situ system relative
\* clause over the tokens of the first: the main comparison gets the first
\* gold tuple only and the labels of the pair differ; the relative-clause
\* comparison gets both gold tuples, and the labels of the pair are equal.
C18_Witness ==
    /\ Evaluated
    /\ tokens = WordSentence
    /\ heap[1].lab = "RELC" /\ heap[1].pos = "extrap"
    /\ heap[1].link # 0 /\ heap[2].heads = <<1>>
    /\ heap[1].elems = Append(FromTo(1, NTok - 1), Ref(4))
    /\ heap[3].lab = "RELC" /\ heap[3].pos = "insitu"
    /\ heap[3].elems = FromTo(1, NTok)
    /\ Len(movElem_goldspans) = 1 /\ Len(evalspans) = 1
    /\ movElem_goldspans[1].label # evalspans[1].label
    /\ movElem_goldspans[1].start = evalspans[1].start
    /\ movElem_goldspans[1].end = evalspans[1].end
    /\ Len(gold_relcs) = 2 /\ Len(eval_relcs) = 1
    /\ gold_relcs[1] = eval_relcs[1]

---------------------------------------------------------------------------
(* evaluate_file and the table LABELS (src/src/evaluation.py)              *)
(*                                                                         *)
(* LABELS is a module-level dictionary, so it outlives a call.  It is a    *)
(* function from the annotation names to label lists.  The action covers   *)
(* evaluate_file up to the arguments of the compare_spans calls of         *)
(* evaluate_MovElems; the documents have one sentence each.                *)

Annotations == {"chunks", "topf", "phrases", "brackets", "extrap"}

\* LABELS as the module defines it
InitialLABELS ==
    [a \in Annotations |->
        CASE a = "chunks"   -> << <<"NC">>, <<"PC">>, <<"AC">>, <<"ADVC">>,
                                  <<"sNC">>, <<"sPC">> >>
          [] a = "topf"     -> << <<"KOORD">>, <<"LV">>, <<"VF">>, <<"LK">>,
                                  <<"MF">>, <<"RK">>, <<"NF">> >>
          [] a = "phrases"  -> << <<"NP">>, <<"PP">>, <<"AP">>, <<"ADVP">> >>
          [] a = "brackets" -> << <<"LK">>, <<"RK">> >>
          [] a = "extrap"   -> ExtrapLabels]

\* if annotation == "extrap" and kwargs.get("corpus", "") in ["Tiger"]:
\*     LABELS["extrap"] = ["RELC-insitu", "RELC-ambig", "RELC-extrap"]
narrowed(table, annotation, corpus) ==
    IF annotation = "extrap" /\ corpus = "Tiger"
    THEN [table EXCEPT !["extrap"] = RelcLabels]
    ELSE table

\* LABELS.get(annotation, [])
labels_of(table, annotation) ==
    IF annotation \in DOMAIN table THEN table[annotation] ELSE <<>>

CorpusNames == {"", "Tiger", "TuebaDS"}
CalledWith  == {"extrap", "phrases", ""}

InitFile ==
    /\ tokens = WordSentence
    /\ \E lab \in MovLabels, position \in GoldPositions, toks \in TokenRanges,
          syslab \in MovLabels, sysposition \in SysPositions,
          systoks \in TokenRanges :
         heap = << MovObj(lab, position, toks, 0), AntecObj(<<>>, 0),
                   MovObj(syslab, sysposition, systoks, 0) >>
    /\ goldMovElems = <<1>>
    /\ evalMovElems = <<3>>
    /\ labels = <<>>
    /\ all_goldspans = <<>> /\ movElem_goldspans = <<>> /\ evalspans = <<>>
    /\ gold_relcs = <<>> /\ eval_relcs = <<>>
    /\ LABELS = InitialLABELS
    /\ kwargs = [annotation |-> "", corpus |-> ""]
    /\ last = NoCall
    /\ IdleCodec /\ IdleBesideFile

\* evaluate_file(golddoc, evaldoc, annotation=..., corpus=...)
EvaluateDoc(annotation, corpus) ==
    /\ \E table \in {narrowed(LABELS, annotation, corpus)} :
       \E labs \in {labels_of(table, annotation)} :
         /\ LABELS' = table
         /\ labels' = labs
         /\ IF annotation = "extrap"
            THEN \E all \in {SpansOf(heap, goldMovElems, labs, FALSE, FALSE)},
                    sys \in {SpansOf(heap, evalMovElems, labs, FALSE, FALSE)} :
                   /\ all_goldspans' = all
                   /\ movElem_goldspans'
                          = SpansOf(heap, goldMovElems, labs, TRUE, TRUE)
                   /\ evalspans' = sys
                   /\ gold_relcs' = relcs(all)
                   /\ eval_relcs' = relcs(sys)
            ELSE /\ all_goldspans' = <<>> /\ movElem_goldspans' = <<>>
                 /\ evalspans' = <<>>
                 /\ gold_relcs' = <<>> /\ eval_relcs' = <<>>
    /\ kwargs' = [annotation |-> annotation, corpus |-> corpus]
    /\ last' = Call("evaluate_file", 0, 0, 0, "dict")
    /\ UNCHANGED <<tokens, heap, goldMovElems, evalMovElems, codecVars,
                   besideFile>>

NextFile == \E annotation \in CalledWith, corpus \in CorpusNames :
                EvaluateDoc(annotation, corpus)

SpecFile == InitFile /\ [][NextFile]_vars

(* C19 *)

\* C19: whatever calls came before, a call of evaluate_file leaves the
\* table LABELS as the module defines it, and a call with annotation
\* "extrap" and a corpus other than "Tiger" evaluates the full list of
\* extrap labels.
C19_EvaluateFileStateless ==
    last.op = "evaluate_file" =>
        /\ LABELS = InitialLABELS
        /\ (kwargs.annotation = "extrap" /\ kwargs.corpus # "Tiger")
               => labels = ExtrapLabels

---------------------------------------------------------------------------
(* Further claims about the codec (specification SpecCodec) *)

\* The decoder is at a token whose level-0 tag is B- while spans are open.
AtLevelZeroB ==
    /\ pc = "token"
    /\ codec \in {"Span", "MovElem"}
    /\ anno[tok] \notin {O, Underscore}
    /\ IsB(anno[tok][1])
    /\ span_stack # <<>>

\* C21: when a token's level-0 tag is B- while spans are open, the pass of
\* the decoder over that token appends the root of the open spans, and
\* nothing else, to the output, leaves none of the open spans on the stack,
\* and the span at the bottom of the new stack is a new span without
\* parent.
C21_LevelZeroBFlushesRoot ==
    [][(AtLevelZeroB /\ pc' # "fault") =>
          /\ spans' = Append(spans, span_stack[1])
          /\ span_stack' # <<>>
          /\ \A i \in 1..Len(span_stack') :
                 ~Contains(span_stack, span_stack'[i])
          /\ span_stack'[1] > Len(heap)
          /\ heap'[span_stack'[1]].parent = 0]_vars


---------------------------------------------------------------------------
(* Further claims about the Span mutators (specification Spec) *)

IsMutator(op) == op \in {"append_element", "insert_element", "remove_element"}

\* C22: after a call of append_element, insert_element or remove_element on
\* any span, the punctuation-inclusive getters of every span that dominates
\* a token (the changed span, its descendants and its ancestors) return the
\* zero-based index of the first and of the last token the span dominates.
C22_IndicesCoherentAcrossTree ==
    IsMutator(last.op) =>
        \A s \in Ids :
            len(heap, s) > 0 =>
                /\ get_start_index(heap, s, FALSE)
                       = IndexOfToken(get_tokens(heap, s)[1])
                /\ get_end_index(heap, s, FALSE)
                       = IndexOfToken(Last(get_tokens(heap, s)))

\* C23: after MovElem's decoder has returned, every moving element that has
\* an antecedent is the moving element of that antecedent and carries its
\* id, and every antecedent stored on the sentence that has a moving element
\* is the antecedent of that moving element.
C23_MutualLinking ==
    (Decoded /\ codec = "MovElem") =>
        /\ \A m \in Created :
               heap[m].link # 0 =>
                   /\ heap[heap[m].link].link = m
                   /\ heap[heap[m].link].ID = heap[m].ID
        /\ \A k \in 1..Len(antecedents) :
               heap[antecedents[k]].link # 0 =>
                   heap[heap[antecedents[k]].link].link = antecedents[k]

---------------------------------------------------------------------------
(* Specification SpecHeads: the constructors of MovElem and Antecedent and *)
(* their head-token and link setters, called in any order.  A head-token   *)
(* attribute refers to a Python list object; store[l] is the content of    *)
(* list l.                                                                  *)

MaxObjs  == 2      \* objects constructed
MaxHeads == 1      \* length of a head-token list
MaxLists == 3      \* list objects in the store

\* The list objects that the def statements of MovElem.__init__ and
\* Antecedent.__init__ evaluate once for headToks = [] and headTokens = [].
DefaultHeadToks   == 1
DefaultHeadTokens == 2

\* A head-token argument: left out, or a list the caller has just built.
NoArg        == [given |-> FALSE, toks |-> <<>>]
ListArg(c)   == [given |-> TRUE, toks |-> c]
HeadContents == {<<>>} \cup {<<t>> : t \in 1..NTok}
HeadArgs     == {NoArg} \cup {ListArg(c) : c \in HeadContents}

ObjIds      == 1..Len(objects)
MovElemObjs == {o \in ObjIds : objects[o].cls = "MovElem"}
AntecObjs   == {o \in ObjIds : objects[o].cls = "Antecedent"}

\* The list object a parameter is bound to, and the store once the caller
\* has built its argument.
BoundList(arg, default) == IF arg.given THEN Len(store) + 1 ELSE default
StoreWith(arg) == IF arg.given THEN Append(store, arg.toks) ELSE store

set_headToks(objs, o, l) == [objs EXCEPT ![o].heads = l]

get_headToks(o) == store[objects[o].heads]

add_headTok(st, l, t) == [st EXCEPT ![l] = Append(@, t)]

remove_headTok(st, l, t) ==
    IF Contains(st[l], t) THEN [st EXCEPT ![l] = RemoveAt(@, IndexOf(@, t))]
    ELSE st

set_MovElem(objs, a, m) == [objs EXCEPT ![a].movElem = m]

get_MovElem(a) == objects[a].movElem

\* What set_MovElem returns: it has no return statement.
set_MovElem_ret == 0

CalledAs(op, o, m) == [op |-> op, self |-> o, MovElem |-> m]

InitHeads ==
    /\ tokens = WordSentence /\ heap = <<>> /\ last = NoCall
    /\ IdleCodec /\ IdleBesideHead
    /\ objects = <<>>
    /\ store = << <<>>, <<>> >>
    /\ called = CalledAs("none", 0, 0)

\* MovElem(label, elements, position[, headToks=...]): self.heads = [] is
\* replaced at once by set_headToks(headToks).
NewMovElem(arg) ==
    /\ Len(objects) < MaxObjs
    /\ arg.given => Len(store) < MaxLists
    /\ LET o  == Len(objects) + 1
           o0 == Append(objects, [cls |-> "MovElem", heads |-> 0, movElem |-> 0])
       IN  /\ objects' = set_headToks(o0, o, BoundList(arg, DefaultHeadToks))
           /\ store' = StoreWith(arg)
           /\ called' = CalledAs("MovElem", o, 0)
    /\ UNCHANGED <<tokens, spanVars, codecVars, besideHead>>

\* Antecedent([headTokens=...][, MovElem=m]); m = 0 when the key word is
\* left out.  self.movElem = self.set_MovElem(kwargs.get("MovElem", None))
\* assigns what set_MovElem returns.
NewAntecedent(arg, m) ==
    /\ Len(objects) < MaxObjs
    /\ arg.given => Len(store) < MaxLists
    /\ LET a  == Len(objects) + 1
           o0 == Append(objects, [cls |-> "Antecedent", heads |-> 0, movElem |-> 0])
           o1 == set_headToks(o0, a, BoundList(arg, DefaultHeadTokens))
           o2 == set_MovElem(o1, a, m)
       IN  /\ objects' = [o2 EXCEPT ![a].movElem = set_MovElem_ret]
           /\ store' = StoreWith(arg)
           /\ called' = CalledAs("Antecedent", a, m)
    /\ UNCHANGED <<tokens, spanVars, codecVars, besideHead>>

AddHeadTok(o, t) ==
    /\ Len(get_headToks(o)) < MaxHeads
    /\ store' = add_headTok(store, objects[o].heads, t)
    /\ called' = CalledAs("add_headTok", o, 0)
    /\ UNCHANGED <<objects, tokens, spanVars, codecVars, besideHead>>

\* Only Antecedent defines remove_headTok.
RemoveHeadTok(a, t) ==
    /\ store' = remove_headTok(store, objects[a].heads, t)
    /\ called' = CalledAs("remove_headTok", a, 0)
    /\ UNCHANGED <<objects, tokens, spanVars, codecVars, besideHead>>

\* o.set_headToks(p.get_headToks()), as extrap.py does for a shared
\* antecedent.
SetHeadToksFrom(o, p) ==
    /\ objects' = set_headToks(objects, o, objects[p].heads)
    /\ called' = CalledAs("set_headToks", o, 0)
    /\ UNCHANGED <<store, tokens, spanVars, codecVars, besideHead>>

\* o.set_headToks(c) with a list c the caller has just built.
SetHeadToks(o, c) ==
    /\ Len(store) < MaxLists
    /\ objects' = set_headToks(objects, o, BoundList(ListArg(c), 0))
    /\ store' = StoreWith(ListArg(c))
    /\ called' = CalledAs("set_headToks", o, 0)
    /\ UNCHANGED <<tokens, spanVars, codecVars, besideHead>>

SetMovElem(a, m) ==
    /\ objects' = set_MovElem(objects, a, m)
    /\ called' = CalledAs("set_MovElem", a, m)
    /\ UNCHANGED <<store, tokens, spanVars, codecVars, besideHead>>

NextHeads ==
    \/ \E arg \in HeadArgs : NewMovElem(arg)
    \/ \E arg \in HeadArgs, m \in {0} \cup MovElemObjs : NewAntecedent(arg, m)
    \/ \E o \in ObjIds, t \in 1..NTok : AddHeadTok(o, t)
    \/ \E a \in AntecObjs, t \in 1..NTok : RemoveHeadTok(a, t)
    \/ \E o \in ObjIds, p \in ObjIds : SetHeadToksFrom(o, p)
    \/ \E o \in ObjIds, c \in HeadContents : SetHeadToks(o, c)
    \/ \E a \in AntecObjs, m \in MovElemObjs : SetMovElem(a, m)

SpecHeads == InitHeads /\ [][NextHeads]_vars

\* C24: immediately after Antecedent(..., MovElem=m) the new antecedent's
\* get_MovElem() returns m; it returns None only if no MovElem argument was
\* passed.
C24_ConstructorLinksMovElem ==
    called.op = "Antecedent" => get_MovElem(called.self) = called.MovElem

\* C30: add_headTok and remove_headTok on one object leave get_headToks() of
\* every other object as it was.
C30_HeadListsNotShared ==
    [][called'.op \in {"add_headTok", "remove_headTok"} =>
          \A o \in ObjIds :
              o # called'.self => get_headToks(o)' = get_headToks(o)]_vars

\* C25: an insert_element call with an index beyond the number of elements
\* changes no span (element list, cached start and end index, and the
\* parent of the element stay as they are), and a remove_element call for
\* an element the span does not contain returns False and changes no span.
C25_RejectedCallsChangeNothing ==
    [][/\ \A s \in Ids, e \in Elements :
              \A i \in (Len(heap[s].elems) + 1)..(MaxElems + 1) :
                  InsertElement(s, i, e) => heap' = heap
       /\ \A s \in Ids, e \in Elements :
              (~Contains(heap[s].elems, e) /\ RemoveElement(s, e)) =>
                  heap' = heap /\ last'.ret = "False"]_vars

\* A rejected insertion into a span that has an element and cached indices,
\* while another span without parent exists.
C25_Witness ==
    /\ RejectedInsert
    /\ heap[last.self].elems # <<>>
    /\ heap[last.self].start >= 0
    /\ \E c \in Ids : c # last.self /\ heap[c].parent = 0

---------------------------------------------------------------------------
(* Further claims about evaluate_antecedents (specification SpecAntec) *)

HeadKinds == {"TP", "FP", "FN"}
HeadTiers == {"Correct", "Right", "All"}

\* The head counts of the three tiers are nested in the bucket counts.
Nested(counts) ==
    \A kind \in HeadKinds :
        /\ counts[HeadKeys("Correct")[kind]] <= counts[HeadKeys("Right")[kind]]
        /\ counts[HeadKeys("Right")[kind]] <= counts[HeadKeys("All")[kind]]

\* The heads a match contributes: shared, only in the system antecedent,
\* only in the gold antecedent.
HeadsOf(kind, match) ==
    IF kind = "TP"
    THEN aGold[match.gold].heads \cap aSys[match.system].heads
    ELSE IF kind = "FP"
    THEN aSys[match.system].heads \ aGold[match.gold].heads
    ELSE aGold[match.gold].heads \ aSys[match.system].heads

\* The matches whose heads a tier counts.
InTier(tier, match) ==
    \/ tier = "All"
    \/ match.pass = "TP"
    \/ /\ tier = "Right" /\ match.pass = "BE"
       /\ aGold[match.gold].end = aSys[match.system].end

RECURSIVE MatchedHeads(_, _, _)
\* The heads of the first n matches that a tier counts.
MatchedHeads(n, kind, tier) ==
    IF n = 0 THEN 0
    ELSE MatchedHeads(n - 1, kind, tier)
             + (IF InTier(tier, matches[n])
                THEN Cardinality(HeadsOf(kind, matches[n])) ELSE 0)

RECURSIVE AllHeads(_, _)
\* The heads of the antecedents at the positions rest.
AllHeads(antecs, rest) ==
    IF rest = <<>> THEN 0
    ELSE Cardinality(antecs[rest[1]].heads) + AllHeads(antecs, Tail(rest))

\* The heads of the antecedents no pass has matched.
UnmatchedHeads(kind, tier) ==
    IF tier # "All" THEN 0
    ELSE IF kind = "FN" THEN AllHeads(aGold, g_antecs)
    ELSE IF kind = "FP" THEN AllHeads(aSys, e_antecs)
    ELSE 0

\* C26: the head counts of the three tiers are nested in every distance
\* bucket and in the overall bucket that add_dict sums them into, and in
\* the result the Correct tier holds the heads of the exact matches, the
\* Right tier also those of the boundary errors with the same right
\* boundary, and the All tier also those of every other match and of the
\* antecedents left as FN and FP.
C26_HeadTiersNested ==
    /\ \A d \in DOMAIN antec_dict.buckets : Nested(antec_dict.buckets[d])
    /\ Nested(antec_dict.overall)
    /\ apc = "done" =>
           \A kind \in HeadKinds, tier \in HeadTiers :
               antec_dict.overall[HeadKeys(tier)[kind]]
                   = MatchedHeads(Len(matches), kind, tier)
                         + UnmatchedHeads(kind, tier)

\* A result whose three tiers of missed heads differ, with a right-aligned
\* boundary error among the matches.
C26_Witness ==
    /\ apc = "done"
    /\ antec_dict.overall.BEright > 0
    /\ antec_dict.overall.FN_Head_Correct < antec_dict.overall.FN_Head_Right
    /\ antec_dict.overall.FN_Head_Right < antec_dict.overall.FN_Head_All
    /\ antec_dict.overall.TP_Head_Right > 0

\* The antecedents the function evaluates.
EvaluatedGold == {g \in 1..Len(aGold) : GoldCollected(aGold[g])}
EvaluatedSys  == {e \in 1..Len(aSys) : SysCollected(aSys[e])}

\* The matched antecedents and those still in the lists.
MatchedGold == {matches[i].gold : i \in 1..Len(matches)}
MatchedSys  == {matches[i].system : i \in 1..Len(matches)}

\* C27: no gold and no system antecedent is matched twice or is both
\* matched and left over, and in the result the overall counts of the
\* categories add up to the number of evaluated gold antecedents (with FN)
\* and of evaluated system antecedents (with FP), BE is the sum of BES, BEL
\* and BEO, and BEright is at most BE.
C27_MatchingConservesCounts ==
    /\ \A i \in 1..Len(matches), j \in 1..Len(matches) :
           i # j => /\ matches[i].gold # matches[j].gold
                    /\ matches[i].system # matches[j].system
    /\ apc # "collect" =>
           /\ MatchedGold \cap Range(g_antecs) = {}
           /\ MatchedSys \cap Range(e_antecs) = {}
           /\ MatchedGold \cup Range(g_antecs) = EvaluatedGold
           /\ MatchedSys \cup Range(e_antecs) = EvaluatedSys
    /\ apc = "done" =>
           LET c == antec_dict.overall
           IN  /\ c.Correct + c.BES + c.BEL + c.BEO + c.IL + c.FN
                      = Cardinality(EvaluatedGold)
               /\ c.Correct + c.BES + c.BEL + c.BEO + c.IL + c.FP
                      = Cardinality(EvaluatedSys)
               /\ c.BE = c.BES + c.BEL + c.BEO
               /\ c.BEright <= c.BE
               /\ c.FN = Len(g_antecs) /\ c.FP = Len(e_antecs)

\* The exact pass has consumed the system antecedent that a gold antecedent
\* left over would otherwise have matched as a boundary error.
C27_Witness ==
    /\ apc = "done"
    /\ \E i \in 1..Len(matches), g \in Range(g_antecs) :
           /\ matches[i].pass = "TP"
           /\ Matches("BE", aGold[g], aSys[matches[i].system])
    /\ antec_dict.overall.FN > 0

\* The antecedents that are linked to a relative clause.
LinkedToRELC(antecs) == {i \in 1..Len(antecs) : antecs[i].label = "RELC"}

\* C28: when the gold and the system sentence carry the same antecedents,
\* the result has no FP, FN, IL and BE in the overall bucket, and Correct
\* is the number of antecedents linked to a relative clause.
C28_SelfEvaluationPerfect ==
    (apc = "done" /\ aGold = aSys) =>
        /\ antec_dict.overall.FP = 0 /\ antec_dict.overall.FN = 0
        /\ antec_dict.overall.IL = 0 /\ antec_dict.overall.BE = 0
        /\ antec_dict.overall.Correct = Cardinality(LinkedToRELC(aGold))

---------------------------------------------------------------------------
(* Specification SpecConvert: TSVtoBIOProcessor.process_sentence rewrites   *)
(* the raw column of a sentence into BIO tags                               *)
(* (src/src/C6C/src/processor.py), and Span.span_from_BIO_annotation then   *)
(* decodes the column.  A raw level "NP[1]" is the pair of its label and    *)
(* its number; a raw tag is "_" or its levels, split at "|".                *)

NRaw == 3          \* tokens of the converted sentence

RawLevels == {<<"NP", "1">>, <<"NP", "2">>, <<"PP", "1">>}
RawAnnos  == {Underscore} \cup Stacked(<<RawLevels, RawLevels>>)

RECURSIVE RawColumns(_)
RawColumns(n) ==
    IF n = 0 THEN {<<>>}
    ELSE {Append(c, a) : c \in RawColumns(n - 1), a \in RawAnnos}

RECURSIVE WordsUpTo(_)
WordsUpTo(n) ==
    IF n = 0 THEN <<>>
    ELSE Append(WordsUpTo(n - 1), [ID |-> str(n), XPOS |-> "NN"])

\* "B-" + annos[i].split("[")[0]
BIOTag(prefix, raw) == <<prefix, raw[1]>>

\* One turn of `for i in range(len(annos))`; i counts from 1.
process_level(st, annos, i) ==
    IF st.stack # <<>>
    THEN IF i <= Len(st.stack)
         THEN IF annos[i] = st.stack[i]
              THEN [st EXCEPT !.bio = Append(@, BIOTag("I", annos[i]))]
              ELSE [stack |-> Append(SubSeq(st.stack, 1, i - 1), annos[i]),
                    bio   |-> Append(st.bio, BIOTag("B", annos[i]))]
         ELSE [stack |-> Append(st.stack, annos[i]),
               bio   |-> Append(st.bio, BIOTag("B", annos[i]))]
    ELSE [stack |-> Append(st.stack, annos[i]),
          bio   |-> Append(st.bio, BIOTag("B", annos[i]))]

\* A variant that keeps the stack over a token without annotation.
process_token_keeping(st, annos, empty_annotation) ==
    IF annos = Underscore
    THEN [stack |-> st.stack, column |-> Append(st.column, empty_annotation)]
    ELSE LET Rec[i \in 0..Len(annos)] ==
                 IF i = 0
                 THEN [stack |-> IF Len(st.stack) > Len(annos)
                                 THEN SubSeq(st.stack, 1, Len(annos))
                                 ELSE st.stack,
                       bio   |-> <<>>]
                 ELSE process_level(Rec[i - 1], annos, i)
         IN  [stack  |-> Rec[Len(annos)].stack,
              column |-> Append(st.column, Rec[Len(annos)].bio)]

\* One turn of `for tok in sentence.tokens`.
process_token(st, annos, empty_annotation) ==
    IF annos = Underscore
    THEN [stack |-> <<>>, column |-> Append(st.column, empty_annotation)]
    ELSE LET Rec[i \in 0..Len(annos)] ==
                 IF i = 0
                 THEN [stack |-> IF Len(st.stack) > Len(annos)
                                 THEN SubSeq(st.stack, 1, Len(annos))
                                 ELSE st.stack,
                       bio   |-> <<>>]
                 ELSE process_level(Rec[i - 1], annos, i)
         IN  [stack  |-> Rec[Len(annos)].stack,
              column |-> Append(st.column, Rec[Len(annos)].bio)]

\* The column process_sentence leaves on the tokens.
process_sentence(raw, empty_annotation) ==
    LET Rec[k \in 0..Len(raw)] ==
            IF k = 0 THEN [stack |-> <<>>, column |-> <<>>]
            ELSE process_token(Rec[k - 1], raw[k], empty_annotation)
    IN  Rec[Len(raw)].column

InitConvert ==
    /\ last = NoCall /\ tok = 0 /\ exc = "none" /\ IdleOther
    /\ span_stack = <<>> /\ antecedents = <<>>
    /\ codec = "Span" /\ origin = "raw" /\ pc = "convert"
    /\ tokens = WordsUpTo(NRaw)
    /\ anno \in RawColumns(NRaw)
    /\ antecCol = <<>> /\ cols = <<>>
    /\ heap = <<>> /\ spans = <<>> /\ strs = <<>>

\* TSVtoBIOProcessor().process_sentence(sentence, annotation, empty_annotation)
ProcessSentence ==
    /\ pc = "convert"
    /\ \E empty_annotation \in {O, Underscore} :
       \E column \in {process_sentence(anno, empty_annotation)} :
           /\ anno' = column
           /\ cols' = <<anno, column>>
    /\ pc' = "begin"
    /\ UNCHANGED <<otherVars, tokens, heap, last, codec, tok, antecCol,
                   span_stack, spans, antecedents, origin, exc, strs>>

NextConvert == ProcessSentence \/ Begin \/ DecodeToken \/ Finish

SpecConvert == InitConvert /\ [][NextConvert]_vars

Annotated(t) == anno[t] \notin {O, Underscore}

\* C29: the tags the converter writes have on each token I- levels followed
\* by B- levels, every I- level continues the level of the token before it
\* with the same label, and the Span decoder, reading the column, never
\* comes to an I- tag at a level without open span and never fails.
C29_ConvertedColumnDecodes ==
    (origin = "raw" /\ pc # "convert") =>
        /\ \A t \in 1..Len(anno) :
               Annotated(t) =>
                   /\ \A i \in 1..Len(anno[t]) :
                          IsB(anno[t][i]) \/ IsI(anno[t][i])
                   /\ \A i \in 1..Len(anno[t]), j \in 1..Len(anno[t]) :
                          (i < j /\ IsB(anno[t][i])) => IsB(anno[t][j])
                   /\ \A i \in 1..Len(anno[t]) :
                          IsI(anno[t][i]) =>
                              /\ t > 1 /\ Annotated(t - 1)
                              /\ Len(anno[t - 1]) >= i
                              /\ anno[t - 1][i][2] = anno[t][i][2]
        /\ pc = "token" =>
               (Annotated(tok) =>
                    \A i \in 1..Len(anno[tok]) :
                        IsI(anno[tok][i]) => i <= Len(span_stack))
        /\ pc # "fault" /\ exc = "none"

\* The decoder has returned from a converted column whose last token
\* continues two levels that the token before it opened anew.
C29_Witness ==
    /\ origin = "raw" /\ pc = "encode"
    /\ Len(cols[2][1]) = 2
    /\ Annotated(2) /\ Len(anno[2]) = 2 /\ IsB(anno[2][1])
    /\ Annotated(3) /\ Len(anno[3]) = 2 /\ IsI(anno[3][1]) /\ IsI(anno[3][2])
=============================================================================
